---- MODULE Spec2Model ----
(***************************************************************************)
(* BM25 documentation search service: the result cache, the search         *)
(* orchestrator and the index lifecycle of backend/app/services.           *)
(*                                                                         *)
(* Python strings are sequences of one-character strings, so that strip,   *)
(* lower, the tokenizer's regular expression, substring tests and the      *)
(* cache key's f-string are computed character by character.               *)
(***************************************************************************)
EXTENDS Integers, Sequences, FiniteSets, TLC

\* ------------------------------------------------------------------------
\* Bounds of the model (configuration values scaled down for checking)
\* ------------------------------------------------------------------------

\* performance.cache_size ranges over 0..MaxSize
MaxSize == 2

\* performance.cache_ttl, in clock ticks
TTL == 2

\* search_behavior.max_top_k
MaxTopK == 2

\* the get/search counters stop the run at this many calls
MaxCalls == 3

\* the clock runs until an entry inserted at time 0 has expired
MaxNow ==
    TTL

\* ------------------------------------------------------------------------
\* Characters and strings
\* ------------------------------------------------------------------------

LowerLetters ==
    {"a", "b", "c", "d", "e", "f", "g", "h", "i", "j", "k", "l", "m", "n", "o", "p", "q", "r", "s", "t", "u", "v", "w", "x", "y", "z"}

UpperToLower ==
    [A |-> "a", B |-> "b", C |-> "c", D |-> "d", E |-> "e", F |-> "f", G |-> "g", H |-> "h", I |-> "i", J |-> "j", K |-> "k", L |-> "l", M |-> "m", N |-> "n", O |-> "o", P |-> "p", Q |-> "q", R |-> "r", S |-> "s", T |-> "t", U |-> "u", V |-> "v", W |-> "w", X |-> "x", Y |-> "y", Z |-> "z"]

Digits ==
    <<"0", "1", "2", "3", "4", "5", "6", "7", "8", "9">>

stopwords ==
    {<<"a">>, <<"a", "n">>, <<"a", "n", "d">>, <<"a", "r", "e">>,
     <<"a", "s">>, <<"a", "t">>, <<"b", "e">>, <<"b", "y">>,
     <<"f", "o", "r">>, <<"f", "r", "o", "m">>, <<"h", "a", "s">>, <<"h", "e">>,
     <<"i", "n">>, <<"i", "s">>, <<"i", "t">>, <<"i", "t", "s">>,
     <<"o", "f">>, <<"o", "n">>, <<"t", "h", "a", "t">>, <<"t", "h", "e">>,
     <<"t", "o">>, <<"w", "a", "s">>, <<"w", "i", "l", "l">>, <<"w", "i", "t", "h">>,
     <<"y", "o", "u">>, <<"y", "o", "u", "r">>, <<"t", "h", "i", "s">>, <<"h", "a", "v", "e">>,
     <<"h", "a", "d">>, <<"w", "h", "a", "t">>, <<"w", "h", "e", "n">>, <<"w", "h", "e", "r", "e">>,
     <<"w", "h", "o">>, <<"w", "h", "i", "c", "h">>, <<"w", "h", "y">>, <<"h", "o", "w">>,
     <<"c", "a", "n">>, <<"c", "o", "u", "l", "d">>, <<"s", "h", "o", "u", "l", "d">>, <<"w", "o", "u", "l", "d">>,
     <<"d", "o">>, <<"d", "o", "e", "s">>, <<"d", "i", "d">>, <<"s", "h", "a", "l", "l">>,
     <<"m", "a", "y">>, <<"m", "i", "g", "h", "t">>, <<"b", "u", "t">>, <<"o", "r">>,
     <<"n", "o", "t">>, <<"n", "o">>, <<"a", "l", "l">>, <<"a", "n", "y">>,
     <<"b", "o", "t", "h">>, <<"e", "a", "c", "h">>, <<"f", "e", "w">>, <<"m", "o", "r", "e">>,
     <<"m", "o", "s", "t">>, <<"o", "t", "h", "e", "r">>, <<"s", "o", "m", "e">>, <<"s", "u", "c", "h">>,
     <<"o", "n", "l", "y">>, <<"o", "w", "n">>, <<"s", "a", "m", "e">>, <<"s", "o">>,
     <<"t", "h", "a", "n">>, <<"t", "o", "o">>, <<"v", "e", "r", "y">>, <<"j", "u", "s", "t">>,
     <<"n", "o", "w">>, <<"a", "l", "s", "o">>, <<"h", "e", "r", "e">>, <<"t", "h", "e", "r", "e">>,
     <<"t", "h", "e", "n">>, <<"t", "h", "e", "y">>}

S_section_type ==
    <<"s", "e", "c", "t", "i", "o", "n", "_", "t", "y", "p", "e">>

S_node_type ==
    <<"n", "o", "d", "e", "_", "t", "y", "p", "e">>

S_min_score ==
    <<"m", "i", "n", "_", "s", "c", "o", "r", "e">>

S_integration ==
    <<"i", "n", "t", "e", "g", "r", "a", "t", "i", "o", "n">>

S_concept ==
    <<"c", "o", "n", "c", "e", "p", "t">>

S_general ==
    <<"g", "e", "n", "e", "r", "a", "l">>

S_Slack ==
    <<"S", "l", "a", "c", "k">>

S_Email ==
    <<"E", "m", "a", "i", "l">>

S_SlackNode ==
    <<"S", "l", "a", "c", "k", " ", "N", "o", "d", "e">>

S_EmailNode ==
    <<"E", "m", "a", "i", "l", " ", "N", "o", "d", "e">>

S_SlackHooks ==
    <<"S", "l", "a", "c", "k", " ", "H", "o", "o", "k", "s">>

S_SlackChat ==
    <<"S", "l", "a", "c", "k", " ", "C", "h", "a", "t">>

S_sendSlack ==
    <<"s", "e", "n", "d", " ", "s", "l", "a", "c", "k">>

S_sendEmail ==
    <<"e", "m", "a", "i", "l", " ", "n", "o", "t", " ", "s", "l", "a", "c", "k">>

S_hooks ==
    <<"s", "l", "a", "c", "k", " ", "h", "o", "o", "k", "s">>

S_chat ==
    <<"t", "h", "e", " ", "s", "l", "a", "c", "k", " ", "c", "h", "a", "t">>

S_Untitled ==
    <<"U", "n", "t", "i", "t", "l", "e", "d">>

Q_empty ==
    <<>>

Q_blank ==
    <<" ", " ">>

Q_the ==
    <<"t", "h", "e">>

Q_slack ==
    <<"s", "l", "a", "c", "k">>

Q_email ==
    <<"s", "e", "n", "d", " ", "E", "m", "a", "i", "l">>

Q_zzz ==
    <<"z", "z", "z">>

\* Python's None
None ==
    <<"<None>">>

Whitespace ==
    {" ", "\t", "\n"}

UpperLetters ==
    DOMAIN UpperToLower

DigitSet ==
    {Digits[i] : i \in 1..Len(Digits)}

\* an assignment `x = v` followed by the code F that reads x: v is evaluated
\* once, as the right-hand side of a Python assignment is
Bind(v, F(_)) ==
    CHOOSE r \in {F(x) : x \in {v}} : TRUE

MinOf(S) ==
    CHOOSE x \in S : \A y \in S : x <= y

MaxOf(S) ==
    CHOOSE x \in S : \A y \in S : y <= x

\* one character of str.lower()
LowerChar(c) ==
    IF c \in UpperLetters THEN UpperToLower[c] ELSE c

\* str.lower()
lower(s) ==
    [i \in 1..Len(s) |-> LowerChar(s[i])]

\* IsBlank without the strip: only the empty string is rejected
IsBlank_NoStrip(s) ==
    s = <<>>

\* `not query or not query.strip()`
IsBlank(s) ==
    \A i \in 1..Len(s) : s[i] \in Whitespace

\* `needle in haystack` for strings
Contains(haystack, needle) ==
    \E i \in 0..(Len(haystack) - Len(needle)) :
        SubSeq(haystack, i + 1, i + Len(needle)) = needle

\* str.endswith
EndsWith(s, suffix) ==
    /\ Len(s) >= Len(suffix)
    /\ SubSeq(s, Len(s) - Len(suffix) + 1, Len(s)) = suffix

\* s[:-n]
DropLast(s, n) ==
    SubSeq(s, 1, Len(s) - n)

\* str(n) for a non-negative integer
RECURSIVE NatStr(_)
NatStr(n) ==
    IF n < 10 THEN <<Digits[n + 1]>>
    ELSE NatStr(n \div 10) \o <<Digits[(n % 10) + 1]>>

\* str(n) for an integer
IntStr(n) ==
    IF n < 0 THEN <<"-">> \o NatStr(0 - n) ELSE NatStr(n)

\* repr(s) of a string holding no quote and no backslash
StrRepr(s) ==
    <<"'">> \o s \o <<"'">>

\* ------------------------------------------------------------------------
\* TextProcessor
\* ------------------------------------------------------------------------

\* search.yaml text_processing section
text_processing ==
    [lowercase |-> TRUE, min_word_length |-> 2, max_word_length |-> 20,
     remove_stopwords |-> TRUE, enable_stemming |-> TRUE]

\* \w of the regular expression, on ASCII text
IsWordChar(c) ==
    c \in LowerLetters \/ c \in UpperLetters \/ c \in DigitSet \/ c = "_"

\* the class [a-zA-Z0-9_-]
IsTokenChar(c) ==
    IsWordChar(c) \/ c = "-"

\* maximal runs of [a-zA-Z0-9_-] characters of text, from position i on
RECURSIVE TokenRuns(_, _, _)
TokenRuns(text, i, cur) ==
    LET done == IF cur = <<>> THEN <<>> ELSE <<cur>>
    IN  IF i > Len(text) THEN done
        ELSE IF IsTokenChar(text[i]) THEN TokenRuns(text, i + 1, Append(cur, text[i]))
        ELSE done \o TokenRuns(text, i + 1, <<>>)

\* the \b...\b match inside one run: a hyphen is not a word character, so the
\* match starts at the run's first word character and ends at its last one
WordBounded(run) ==
    LET idx == {i \in 1..Len(run) : IsWordChar(run[i])}
    IN  IF idx = {} THEN <<>> ELSE SubSeq(run, MinOf(idx), MaxOf(idx))

\* re.findall(r'\b[a-zA-Z0-9_-]+\b', text)
re_findall(text) ==
    LET runs == TokenRuns(text, 1, <<>>)
        bounded == [i \in 1..Len(runs) |-> WordBounded(runs[i])]
    IN  SelectSeq(bounded, LAMBDA t : t # <<>>)

_remove_stopwords(tokens) ==
    SelectSeq(tokens, LAMBDA t : lower(t) \notin stopwords)

\* one token of _apply_basic_stemming
StemToken(token) ==
    IF EndsWith(token, <<"i", "n", "g">>) /\ Len(token) > 5 THEN DropLast(token, 3)
    ELSE IF EndsWith(token, <<"e", "d">>) /\ Len(token) > 4 THEN DropLast(token, 2)
    ELSE IF EndsWith(token, <<"e", "r">>) /\ Len(token) > 4 THEN DropLast(token, 2)
    ELSE IF EndsWith(token, <<"e", "s", "t">>) /\ Len(token) > 5 THEN DropLast(token, 3)
    ELSE IF EndsWith(token, <<"l", "y">>) /\ Len(token) > 4 THEN DropLast(token, 2)
    ELSE IF EndsWith(token, <<"s">>) /\ Len(token) > 3 /\ ~EndsWith(token, <<"s", "s">>)
        THEN DropLast(token, 1)
    ELSE token

_apply_basic_stemming(tokens) ==
    [i \in 1..Len(tokens) |-> StemToken(tokens[i])]

preprocess_text(cfg, text) ==
    IF text = <<>> THEN <<>>
    ELSE
        LET cased == IF cfg.lowercase THEN lower(text) ELSE text
            tokens == re_findall(cased)
            sized == SelectSeq(tokens, LAMBDA t :
                         cfg.min_word_length <= Len(t) /\ Len(t) <= cfg.max_word_length)
            kept == IF cfg.remove_stopwords THEN _remove_stopwords(sized) ELSE sized
        IN  IF cfg.enable_stemming THEN _apply_basic_stemming(kept) ELSE kept

\* create_highlight(content, query): the snippet text is not computed; the
\* value stands for the string the call returns for these two arguments
create_highlight(content, query) ==
    <<"highlight">> \o content \o <<"|">> \o query

\* ------------------------------------------------------------------------
\* Corpus files (data/n8n_docs.json) and search configuration
\* ------------------------------------------------------------------------

\* one element of the "sections" array that is a JSON object; a field equal
\* to None stands for an absent key
Section(title, content, section_type, node_type) ==
    [kind |-> "dict", title |-> title, content |-> content,
     section_type |-> section_type, node_type |-> node_type]

\* an element of the "sections" array that is a JSON string, not an object
JunkSection ==
    [kind |-> "str", title |-> None, content |-> None,
     section_type |-> None, node_type |-> None]

DocSlack ==
    Section(S_SlackNode, S_sendSlack, S_integration, S_Slack)

DocEmail ==
    Section(S_EmailNode, S_sendEmail, S_integration, S_Email)

DocHooks ==
    Section(S_SlackHooks, S_hooks, S_concept, None)

DocChat ==
    Section(S_SlackChat, S_chat, None, None)

\* the contents the corpus file can have: exists (the file is there), valid
\* (it parses to an object with a "sections" list) and the list itself
CorpusFiles ==
    [A |-> [exists |-> TRUE, valid |-> TRUE,
            sections |-> <<DocSlack, DocEmail, DocHooks, DocChat>>],
     B |-> [exists |-> TRUE, valid |-> TRUE,
            sections |-> <<DocEmail, DocSlack>>],
     C |-> [exists |-> TRUE, valid |-> TRUE,
            sections |-> <<DocHooks, DocSlack>>],
     empty |-> [exists |-> TRUE, valid |-> TRUE, sections |-> <<>>],
     junk |-> [exists |-> TRUE, valid |-> TRUE,
               sections |-> <<DocEmail, JunkSection>>],
     invalid |-> [exists |-> TRUE, valid |-> FALSE, sections |-> <<>>],
     missing |-> [exists |-> FALSE, valid |-> FALSE, sections |-> <<>>]]

\* field_weights.title_weight after int()
title_weight ==
    2

\* search_behavior.default_top_k
default_top_k ==
    1

\* search_behavior.max_top_k
max_top_k ==
    MaxTopK

\* search_behavior.min_score_threshold
min_score_threshold ==
    1

\* search_behavior.node_type_boost
node_type_boost ==
    2

\* search_behavior.section_type_weights of the service: the (section type,
\* weight) pairs of the dict
section_type_weights ==
    <<<<S_integration, 2>>>>

\* weights.get(section_type, 1.0)
WeightOf(weights, section_type) ==
    IF \E i \in 1..Len(weights) : weights[i][1] = section_type
        THEN weights[CHOOSE i \in 1..Len(weights) : weights[i][1] = section_type][2]
        ELSE 1

\* the weight of section_type under the configuration of the service
SectionWeight(section_type) ==
    WeightOf(section_type_weights, section_type)

\* doc.get(field, default)
DocGet(doc, field, default) ==
    IF doc[field] = None THEN default ELSE doc[field]

\* ------------------------------------------------------------------------
\* BM25IndexManager
\* ------------------------------------------------------------------------

\* [title] * title_weight, as a list of strings
RECURSIVE Repeat(_, _)
Repeat(s, n) ==
    IF n <= 0 THEN <<>> ELSE <<s>> \o Repeat(s, n - 1)

\* ' '.join(parts)
RECURSIVE JoinSpace(_)
JoinSpace(parts) ==
    IF parts = <<>> THEN <<>>
    ELSE IF Len(parts) = 1 THEN parts[1]
    ELSE parts[1] \o <<" ">> \o JoinSpace(Tail(parts))

\* the tokens build_index indexes for one document
DocTokens(doc) ==
    LET title == DocGet(doc, "title", <<>>)
        content == DocGet(doc, "content", <<>>)
        combined_text == JoinSpace(Repeat(title, title_weight) \o <<content>>)
    IN  preprocess_text(text_processing, combined_text)

\* a load_documentation that takes a missing or malformed file for an empty
\* corpus
load_documentation_Lenient(file) ==
    [raised |-> FALSE, sections |-> CorpusFiles[file].sections]

\* load_documentation: the sections, or an exception
load_documentation(file) ==
    IF ~CorpusFiles[file].exists \/ ~CorpusFiles[file].valid
        THEN [raised |-> TRUE, sections |-> <<>>]
        ELSE [raised |-> FALSE, sections |-> CorpusFiles[file].sections]

\* the tokenizing loop of build_index stops with an exception at the first
\* section that has no .get method
FirstJunk(sections) ==
    LET bad == {i \in 1..Len(sections) : sections[i].kind # "dict"}
    IN  IF bad = {} THEN 0 ELSE MinOf(bad)

\* bm25s.BM25(...) followed by retriever.index(document_tokens): the
\* retriever holds the token lists it indexed; gen names the build it
\* belongs to
IndexedRetriever(tokens, gen) ==
    [indexed |-> TRUE, corpus |-> tokens, gen |-> gen]

\* build_index on the index [documents, document_tokens, retriever, gen]:
\* the index it leaves behind, and whether it raised.  gen counts the
\* assignments to documents.
build_index(idx, file) ==
    LET loaded == load_documentation(file)
        sections == loaded.sections
        junk == FirstJunk(sections)
        tokens == [i \in 1..Len(sections) |-> DocTokens(sections[i])]
    IN  IF loaded.raised THEN [raised |-> TRUE, index |-> idx]
        ELSE IF junk # 0 THEN
            [raised |-> TRUE,
             index |-> [documents |-> sections,
                        document_tokens |-> SubSeq(tokens, 1, junk - 1),
                        retriever |-> idx.retriever,
                        gen |-> idx.gen + 1]]
        ELSE
            [raised |-> FALSE,
             index |-> [documents |-> sections,
                        document_tokens |-> tokens,
                        retriever |-> IndexedRetriever(tokens, idx.gen + 1),
                        gen |-> idx.gen + 1]]

\* occurrences of term in tokens
RECURSIVE CountOf(_, _)
CountOf(term, tokens) ==
    IF tokens = <<>> THEN 0
    ELSE (IF Head(tokens) = term THEN 1 ELSE 0) + CountOf(term, Tail(tokens))

\* the score of one indexed document: the sum over the query terms of the
\* term's frequency in the document (the idf and length normalisation of
\* the bm25s library are left out; a document scores 0 exactly when it
\* holds no query term)
RECURSIVE DocScore(_, _)
DocScore(query_tokens, tokens) ==
    IF query_tokens = <<>> THEN 0
    ELSE CountOf(Head(query_tokens), tokens) + DocScore(Tail(query_tokens), tokens)

\* retriever.get_scores(query_tokens): one score per indexed document
get_scores(retriever, query_tokens) ==
    [i \in 1..Len(retriever.corpus) |-> DocScore(query_tokens, retriever.corpus[i])]

\* ------------------------------------------------------------------------
\* SearchCache
\* ------------------------------------------------------------------------

\* repr of one filter value: min_score is a number, the others are strings
ValueRepr(pair) ==
    IF pair[1] = S_min_score THEN IntStr(pair[2]) ELSE StrRepr(pair[2])

\* the items of str(dict), in the dict's insertion order
RECURSIVE ItemsRepr(_)
ItemsRepr(filters) ==
    IF filters = <<>> THEN <<>>
    ELSE StrRepr(filters[1][1]) \o <<":", " ">> \o ValueRepr(filters[1])
         \o (IF Len(filters) = 1 THEN <<>> ELSE <<",", " ">> \o ItemsRepr(Tail(filters)))

\* str(filters or {}); an empty sequence stands for None and for {}
DictStr(filters) ==
    <<"{">> \o ItemsRepr(filters) \o <<"}">>

\* hashlib.md5(...).hexdigest(): the digest is taken to be free of
\* collisions, so it is the tagged input
md5_hexdigest(data) ==
    <<"md5:">> \o data

_make_key(query, top_k, filters) ==
    LET key_data == query \o <<"|">> \o IntStr(top_k) \o <<"|">> \o DictStr(filters)
    IN  md5_hexdigest(key_data)

\* position of key in the dict, 0 when absent
KeyIndex(entries, key) ==
    LET at == {i \in 1..Len(entries) : entries[i].key = key}
    IN  IF at = {} THEN 0 ELSE MinOf(at)

\* del entries[i]
RemoveAt(entries, i) ==
    SubSeq(entries, 1, i - 1) \o SubSeq(entries, i + 1, Len(entries))

\* an expiry test that still serves an entry whose age equals the TTL
NotExpired_Inclusive(timestamp, t) ==
    t - timestamp <= TTL

\* datetime.now() - timestamp < timedelta(seconds=self.ttl_seconds)
NotExpired(timestamp, t) ==
    t - timestamp < TTL

\* the body of get under the lock, at time t, on c = [cache, hits, misses]:
\* found tells a hit from the None of a miss
cache_get(c, key, t) ==
    LET i == KeyIndex(c.cache, key)
    IN  IF i # 0 /\ NotExpired(c.cache[i].timestamp, t)
            THEN [found |-> TRUE, results |-> c.cache[i].results, gen |-> c.cache[i].gen,
                  cache |-> c.cache, hits |-> c.hits + 1, misses |-> c.misses]
        ELSE [found |-> FALSE, results |-> <<>>, gen |-> 0,
              cache |-> IF i # 0 THEN RemoveAt(c.cache, i) ELSE c.cache,
              hits |-> c.hits, misses |-> c.misses + 1]

\* an eviction choice that takes the most recently inserted key
OldestIndex_Newest(entries) ==
    MaxOf({i \in 1..Len(entries) :
              \A j \in 1..Len(entries) : entries[i].timestamp >= entries[j].timestamp})

\* min(self.cache.keys(), key=lambda k: self.cache[k][1]): the first key,
\* in dict order, among those with the smallest timestamp
OldestIndex(entries) ==
    MinOf({i \in 1..Len(entries) :
              \A j \in 1..Len(entries) : entries[i].timestamp <= entries[j].timestamp})

\* self.cache[key] = (results, datetime.now()): an existing key keeps its
\* place in the dict, a new one goes to the end
Store(entries, key, results, t, gen) ==
    LET e == [key |-> key, results |-> results, timestamp |-> t, gen |-> gen]
        i == KeyIndex(entries, key)
    IN  IF i # 0 THEN [entries EXCEPT ![i] = e] ELSE Append(entries, e)

\* the body of set under the lock, at time t; gen is the index generation
\* the results were computed from (a history tag, not read by the code).
\* min() of an empty dict raises ValueError.
cache_set(entries, capacity, key, results, t, gen) ==
    IF Len(entries) >= capacity
        THEN IF entries = <<>>
                 THEN [raised |-> TRUE, cache |-> entries]
                 ELSE [raised |-> FALSE,
                       cache |-> Store(RemoveAt(entries, OldestIndex(entries)),
                                       key, results, t, gen)]
        ELSE [raised |-> FALSE, cache |-> Store(entries, key, results, t, gen)]

\* clear that resets the counters and leaves the entries in place
cache_clear_KeepEntries(c) ==
    [cache |-> c.cache, hits |-> 0, misses |-> 0]

\* clear on c = [cache, hits, misses]
cache_clear(c) ==
    [cache |-> <<>>, hits |-> 0, misses |-> 0]

\* ------------------------------------------------------------------------
\* BM25DocumentationSearch: the scoring pipeline of search
\* ------------------------------------------------------------------------

\* documents[doc_idx] followed by doc.get(...) raises when the position is
\* past the end of documents (IndexError) or the element is no dict
\* (AttributeError).  Positions count from 1 here, from 0 in the code.
DocRaises(documents, doc_idx) ==
    doc_idx > Len(documents) \/ documents[doc_idx].kind # "dict"

\* [(i, score) for i, score in enumerate(doc_scores) if score > 0], then the
\* minimum score threshold
ScoredDocs(doc_scores) ==
    LET pairs == [i \in 1..Len(doc_scores) |-> [doc_idx |-> i, score |-> doc_scores[i]]]
        positive == SelectSeq(pairs, LAMBDA p : p.score > 0)
    IN  SelectSeq(positive, LAMBDA p : p.score >= min_score_threshold)

\* weighting that leaves every score as it is
_apply_section_weighting_Unweighted(weights, documents, scored_docs) ==
    scored_docs

\* _apply_section_weighting under the section_type_weights `weights`
_apply_section_weighting(weights, documents, scored_docs) ==
    [n \in 1..Len(scored_docs) |->
        LET doc == documents[scored_docs[n].doc_idx]
            section_type == DocGet(doc, "section_type", S_general)
        IN  [doc_idx |-> scored_docs[n].doc_idx,
             score |-> scored_docs[n].score * WeightOf(weights, section_type)]]

\* a boost that looks for the node type as it is written in the lower-cased
\* query
_apply_node_boost_CaseSensitive(documents, query, scored_docs) ==
    LET query_lower == lower(query)
    IN  [n \in 1..Len(scored_docs) |->
            LET doc == documents[scored_docs[n].doc_idx]
                node_type == doc.node_type
            IN  IF node_type # None /\ node_type # <<>>
                   /\ Contains(query_lower, node_type)
                    THEN [doc_idx |-> scored_docs[n].doc_idx,
                          score |-> scored_docs[n].score * node_type_boost]
                    ELSE scored_docs[n]]

_apply_node_boost(documents, query, scored_docs) ==
    LET query_lower == lower(query)
    IN  [n \in 1..Len(scored_docs) |->
            LET doc == documents[scored_docs[n].doc_idx]
                node_type == doc.node_type
            IN  IF node_type # None /\ node_type # <<>>
                   /\ Contains(query_lower, lower(node_type))
                    THEN [doc_idx |-> scored_docs[n].doc_idx,
                          score |-> scored_docs[n].score * node_type_boost]
                    ELSE scored_docs[n]]

\* 'name' in filters
HasFilter(filters, name) ==
    \E i \in 1..Len(filters) : filters[i][1] = name

\* filters[name]
FilterValue(filters, name) ==
    filters[CHOOSE i \in 1..Len(filters) : filters[i][1] = name][2]

_apply_filters(documents, scored_docs, filters) ==
    SelectSeq(scored_docs, LAMBDA p :
        LET doc == documents[p.doc_idx]
        IN  /\ HasFilter(filters, S_section_type)
                => doc.section_type = FilterValue(filters, S_section_type)
            /\ HasFilter(filters, S_node_type)
                => doc.node_type = FilterValue(filters, S_node_type)
            /\ HasFilter(filters, S_min_score)
                => ~(p.score < FilterValue(filters, S_min_score)))

\* insert p into a list sorted by descending score, after its equals
RECURSIVE InsertDesc(_, _)
InsertDesc(sorted, p) ==
    IF sorted = <<>> THEN <<p>>
    ELSE IF Head(sorted).score >= p.score THEN <<Head(sorted)>> \o InsertDesc(Tail(sorted), p)
    ELSE <<p>> \o sorted

\* scored_docs.sort(key=lambda x: x[1], reverse=True): a stable sort
RECURSIVE SortDesc(_)
SortDesc(scored_docs) ==
    IF scored_docs = <<>> THEN <<>>
    ELSE InsertDesc(SortDesc(SubSeq(scored_docs, 1, Len(scored_docs) - 1)),
                    scored_docs[Len(scored_docs)])

\* a truncation that keeps the k last elements
SliceTo_FromEnd(seq, k) ==
    SubSeq(seq, Len(seq) - k + 1, Len(seq))

\* seq[:k] of Python: a negative k counts from the end
SliceTo(seq, k) ==
    IF k >= 0 THEN SubSeq(seq, 1, IF k < Len(seq) THEN k ELSE Len(seq))
    ELSE SubSeq(seq, 1, Len(seq) + k)

_create_search_result(documents, doc_idx, score, query) ==
    LET doc == documents[doc_idx]
        content == DocGet(doc, "content", <<>>)
    IN  [title |-> DocGet(doc, "title", S_Untitled),
         content |-> content,
         url |-> <<>>,
         score |-> score,
         section_type |-> DocGet(doc, "section_type", S_general),
         node_type |-> doc.node_type,
         chunk_index |-> 0,
         word_count |-> 0,
         highlight |-> IF query # <<>> THEN create_highlight(content, query) ELSE None]

\* the scoring lines of search: the scores of the retriever, or an
\* exception when the retriever was created but has indexed nothing yet
ScoreStage(retriever, query_tokens) ==
    IF ~retriever.indexed THEN [fault |-> "scoring", doc_scores |-> <<>>]
    ELSE [fault |-> "none", doc_scores |-> get_scores(retriever, query_tokens)]

\* the lines of search from the score filter to the truncation, reading
\* documents: the ranked (doc_idx, score) pairs and their number before the
\* truncation, or an exception
RankStageUnder(weights, documents, doc_scores, query, top_k, filters) ==
    Bind(ScoredDocs(doc_scores), LAMBDA scored :
        IF \E n \in 1..Len(scored) : DocRaises(documents, scored[n].doc_idx)
            THEN [fault |-> "weighting", limited |-> <<>>, total_results |-> 0]
        ELSE
            Bind(_apply_section_weighting(weights, documents, scored), LAMBDA weighted :
            Bind(_apply_node_boost(documents, query, weighted), LAMBDA boosted :
            Bind(IF filters # <<>> THEN _apply_filters(documents, boosted, filters)
                                   ELSE boosted, LAMBDA filtered :
            Bind(SortDesc(filtered), LAMBDA sorted :
                [fault |-> "none", limited |-> SliceTo(sorted, top_k),
                 total_results |-> Len(sorted)])))))

\* the same lines under the configuration of the service
RankStage(documents, doc_scores, query, top_k, filters) ==
    RankStageUnder(section_type_weights, documents, doc_scores, query, top_k, filters)

\* the loop of search that makes a SearchResult of each ranked pair, reading
\* documents
ResultStage(documents, limited, query, include_highlights) ==
    IF \E n \in 1..Len(limited) : DocRaises(documents, limited[n].doc_idx)
        THEN [fault |-> "results", results |-> <<>>]
    ELSE [fault |-> "none",
          results |-> [n \in 1..Len(limited) |->
                          _create_search_result(documents, limited[n].doc_idx,
                              limited[n].score,
                              IF include_highlights THEN query ELSE <<>>)]]

\* the try block of search up to the cache store, on the index idx: the
\* results and the count before truncation, or the stage that raised
PipelineUnder(weights, idx, query, query_tokens, top_k, filters, include_highlights) ==
    Bind(ScoreStage(idx.retriever, query_tokens), LAMBDA scored :
        IF scored.fault # "none"
            THEN [fault |-> scored.fault, results |-> <<>>, total_results |-> 0]
        ELSE
            Bind(RankStageUnder(weights, idx.documents, scored.doc_scores, query, top_k,
                                filters),
                 LAMBDA ranked :
                IF ranked.fault # "none"
                    THEN [fault |-> ranked.fault, results |-> <<>>, total_results |-> 0]
                ELSE
                    Bind(ResultStage(idx.documents, ranked.limited, query,
                                     include_highlights), LAMBDA made :
                        IF made.fault # "none"
                            THEN [fault |-> made.fault, results |-> <<>>,
                                  total_results |-> 0]
                        ELSE [fault |-> "none", results |-> made.results,
                              total_results |-> ranked.total_results])))

\* the same lines under the configuration of the service
Pipeline(idx, query, query_tokens, top_k, filters, include_highlights) ==
    PipelineUnder(section_type_weights, idx, query, query_tokens, top_k, filters,
                  include_highlights)

\* top_k after the default and the limit; <<>> stands for None
EffectiveTopK(top_k) ==
    LET given == IF top_k = <<>> THEN default_top_k ELSE top_k[1]
    IN  IF given < max_top_k THEN given ELSE max_top_k

\* ------------------------------------------------------------------------
\* BM25IndexManager: configuration, snapshot file, should_rebuild_index,
\* save_index, load_index.  File times count half microseconds.
\* ------------------------------------------------------------------------

\* search.yaml bm25 section; the coefficients are kept as the text json.dumps
\* writes for them
BM25_default ==
    [variant |-> "lucene", k1 |-> "1.5", b |-> "0.75"]

BM25_k1 ==
    [variant |-> "lucene", k1 |-> "1.2", b |-> "0.75"]

\* search.yaml field_weights section: int() of either title_weight is 2
FW_float ==
    [title_weight |-> "2.0"]

FW_int ==
    [title_weight |-> "2"]

\* the search configuration the process is started with
CfgDefault ==
    [index |-> [auto_rebuild |-> TRUE, save_index |-> TRUE],
     bm25 |-> BM25_default, text_processing |-> text_processing,
     field_weights |-> FW_float, logging |-> [log_index_building |-> FALSE]]

CfgVerbose ==
    [CfgDefault EXCEPT !.logging.log_index_building = TRUE]

CfgK1 ==
    [CfgDefault EXCEPT !.bm25 = BM25_k1]

CfgFieldWeights ==
    [CfgDefault EXCEPT !.field_weights = FW_int]

CfgAlwaysRebuild ==
    [CfgDefault EXCEPT !.index.auto_rebuild = FALSE]

CfgNoSave ==
    [CfgDefault EXCEPT !.index.save_index = FALSE]

\* the configurations the process is started with in SpecIndex
Configs ==
    {CfgDefault, CfgVerbose, CfgK1, CfgFieldWeights, CfgAlwaysRebuild}

\* index_timestamp before the first build
NoTimestamp ==
    -1

\* json.dumps(obj, sort_keys=True): with sorted keys the text is determined
\* by the content of the mapping, and two mappings with different content
\* give different texts; the text is kept as the one-element sequence that
\* holds the mapping
json_dumps(obj) ==
    <<obj>>

\* a hash taken over the whole configuration
_get_config_hash_WholeConfig(config) ==
    md5_hexdigest(json_dumps(config))

_get_config_hash(config) ==
    LET relevant_config == [bm25 |-> config.bm25,
                            text_processing |-> config.text_processing,
                            field_weights |-> config.field_weights]
    IN  md5_hexdigest(json_dumps(relevant_config))

\* datetime.fromtimestamp(st_mtime): the datetime holds whole microseconds,
\* the float is rounded to the nearest one, a half to the even one.  The
\* argument counts half microseconds, the result microseconds.
FromTimestamp(t) ==
    LET q == t \div 2
    IN  IF t % 2 = 0 THEN q
        ELSE IF q % 2 = 0 THEN q ELSE q + 1

\* the index file when there is none.  built_under is history: the
\* configuration of the process that wrote the snapshot.
NoSnapshot ==
    [exists |-> FALSE, readable |-> FALSE, config_hash |-> <<>>,
     retriever |-> [indexed |-> FALSE, corpus |-> <<>>, gen |-> 0],
     documents |-> <<>>, document_tokens |-> <<>>,
     timestamp |-> NoTimestamp, mtime |-> 0, built_under |-> CfgDefault]

\* should_rebuild_index, for the manager and files st and the corpus file
should_rebuild_index(st, file) ==
    IF ~st.config.index.auto_rebuild THEN TRUE
    ELSE IF ~st.snapshot.exists THEN TRUE
    ELSE IF CorpusFiles[file].exists
               /\ FromTimestamp(st.docs_mtime) > FromTimestamp(st.snapshot.mtime)
        THEN TRUE
    ELSE FALSE

\* how a call of save_index can end: the file written, open() raising and
\* the file as it was, pickle.dump raising and the file cut short
SaveOutcomes ==
    {"saved", "open_failed", "dump_failed"}

\* a save_index that lets the exception out
save_index_Raising(st, idx, outcome) ==
    [raised |-> outcome # "saved", store |-> st]

\* save_index: the snapshot file it leaves; it never raises
save_index(st, idx, outcome) ==
    [raised |-> FALSE,
     store |->
        IF outcome = "saved" THEN
            [st EXCEPT !.snapshot =
                [exists |-> TRUE, readable |-> TRUE,
                 config_hash |-> _get_config_hash(st.config),
                 retriever |-> idx.retriever, documents |-> idx.documents,
                 document_tokens |-> idx.document_tokens,
                 timestamp |-> st.clock, mtime |-> st.clock,
                 built_under |-> st.config]]
        ELSE IF outcome = "dump_failed" THEN
            [st EXCEPT !.snapshot =
                [NoSnapshot EXCEPT !.exists = TRUE, !.mtime = st.clock]]
        ELSE st]

\* build_index as a whole: build_index(idx, file) for documents, tokens and
\* retriever, then save_index if configured, then index_timestamp, then the
\* average sum(len(tokens)) / len(self.document_tokens) for the log line,
\* a ZeroDivisionError when there is no document.  What retriever.index([])
\* of the bm25s library does is not fixed by this code: with outcome
\* "index_failed" it raises and leaves the new retriever without index,
\* with the other outcomes it returns.
\* built_hash is history: the hash of the configuration the retriever in
\* memory was built under.  save tells how the save_index call ended, "none"
\* when there was no such call.
BuildIndex(st, idx, file, outcome) ==
    Bind(build_index(idx, file), LAMBDA built :
        IF built.raised THEN
            [raised |-> TRUE, path |-> "build", save |-> "none",
             index |-> built.index, store |-> st]
        ELSE IF built.index.documents = <<>> /\ outcome = "index_failed" THEN
            [raised |-> TRUE, path |-> "build", save |-> "none",
             index |-> [built.index EXCEPT
                           !.retriever = [indexed |-> FALSE, corpus |-> <<>>,
                                          gen |-> built.index.gen]],
             store |-> st]
        ELSE
            Bind(IF st.config.index.save_index
                     THEN save_index(st, built.index, outcome)
                     ELSE [raised |-> FALSE, store |-> st], LAMBDA saved :
                LET save == IF st.config.index.save_index THEN outcome ELSE "none"
                IN  IF saved.raised THEN
                        [raised |-> TRUE, path |-> "build", save |-> save,
                         index |-> built.index,
                         store |-> [saved.store EXCEPT
                                       !.built_hash = _get_config_hash(st.config)]]
                    ELSE
                        [raised |-> built.index.document_tokens = <<>>,
                         path |-> "build", save |-> save,
                         index |-> built.index,
                         store |-> [saved.store EXCEPT
                                       !.index_timestamp = st.clock,
                                       !.built_hash = _get_config_hash(st.config)]]))

\* the except clause of load_index: build_index()
LoadFallback(st, idx, file, outcome) ==
    BuildIndex(st, idx, file, outcome)

\* a load_index that installs the snapshot without comparing the hashes
HashDiffers_Ignored(snapshot, config) ==
    FALSE

\* index_data.get('config_hash') != self._get_config_hash()
HashDiffers(snapshot, config) ==
    snapshot.config_hash # _get_config_hash(config)

\* load_index: path tells which way the call went
load_index(st, idx, file, outcome) ==
    IF ~st.snapshot.exists \/ ~st.snapshot.readable THEN
        [LoadFallback(st, idx, file, outcome) EXCEPT !.path = "unreadable"]
    ELSE IF HashDiffers(st.snapshot, st.config) THEN
        Bind(BuildIndex(st, idx, file, outcome), LAMBDA first :
            IF first.raised
                THEN [LoadFallback(first.store, first.index, file, outcome)
                          EXCEPT !.path = "mismatch"]
                ELSE [first EXCEPT !.path = "mismatch"])
    ELSE
        [raised |-> FALSE, path |-> "installed", save |-> "none",
         index |-> [documents |-> st.snapshot.documents,
                    document_tokens |-> st.snapshot.document_tokens,
                    retriever |-> IndexedRetriever(st.snapshot.retriever.corpus,
                                                   idx.gen + 1),
                    gen |-> idx.gen + 1],
         store |-> [st EXCEPT !.index_timestamp = st.snapshot.timestamp,
                              !.built_hash = st.snapshot.config_hash]]

\* the corpus file is written: file is what it holds from now on
WriteCorpus(st, old, file) ==
    IF file = old THEN st ELSE [st EXCEPT !.docs_mtime = st.clock]

\* the save_index outcomes a build under config can meet
OutcomesFor(config) ==
    IF config.index.save_index THEN SaveOutcomes ELSE {"none"}

\* the outcomes a build over the corpus file `file` under config can meet
BuildOutcomes(config, file) ==
    OutcomesFor(config)
        \cup (IF ~load_documentation(file).raised
                  /\ load_documentation(file).sections = <<>>
                   THEN {"index_failed"} ELSE {})

\* ------------------------------------------------------------------------
\* State
\* ------------------------------------------------------------------------

VARIABLES
    max_size,       \* SearchCache.max_size (performance.cache_size)
    docs_file,      \* what data/n8n_docs.json holds: a name of CorpusFiles
    index,          \* index_manager: documents, document_tokens, retriever, gen
    cache,          \* SearchCache.cache, in dict order
    hits,           \* SearchCache.hits
    misses,         \* SearchCache.misses
    search_count,   \* BM25DocumentationSearch.search_count
    now,            \* datetime.now()
    calls,          \* number of calls completed so far
    last,           \* the last completed call: its arguments and what it returned
    thr,            \* per thread: where its call stands, and the call's locals
    lock,           \* SearchCache.lock: the thread that holds it
    lin,            \* history: the cache had every call run alone, in lock order
    gets_done,      \* history: the get calls completed since the last clear
    tok,            \* one call of TextProcessor.preprocess_text: config, text, result
    store,          \* index_manager and its files: config, snapshot file, corpus
                    \* mtime, file clock, index_timestamp, built_hash, running
    lru,            \* the lru_cache of get_available_section_types and of
                    \* get_available_node_types: the value kept for this service
    _search_service, \* the module global: 0 for None, else the instance
    instances       \* history: BM25DocumentationSearch objects constructed by
                    \* get_search_service

vars ==
    <<max_size, docs_file, index, cache, hits, misses, search_count, now, calls, last,
      thr, lock, lin, gets_done, tok, store, lru, _search_service, instances>>

\* the threads that call the service
Threads ==
    {"t1", "t2"}

\* the owner of a lock nobody holds
NoOwner ==
    "nobody"

\* no direct call of preprocess_text is under way
NoTokenizerCall ==
    [cfg |-> text_processing, text |-> <<>>, done |-> TRUE, tokens |-> <<>>]

\* a thread that is in no call
Idle ==
    [pc |-> "idle", op |-> "none", query |-> <<>>, top_k |-> <<>>, k |-> 0,
     filters |-> <<>>, include_highlights |-> FALSE, key |-> <<>>, file |-> "A",
     results |-> <<>>, found |-> FALSE, tmp |-> 0, query_tokens |-> <<>>,
     doc_scores |-> <<>>, limited |-> <<>>, total_results |-> 0, gen |-> 0,
     alone |-> [found |-> FALSE, results |-> <<>>]]

\* a call record with every field at its default
Call(op) ==
    [op |-> op, query |-> <<>>, top_k |-> <<>>, filters |-> <<>>,
     include_highlights |-> FALSE, results |-> <<>>, total_results |-> 0,
     results_returned |-> 0, cache_hit |-> FALSE, found |-> FALSE, ok |-> FALSE,
     raised |-> FALSE, fault |-> "none", gen |-> 0, removed |-> 0,
     path |-> "none", save |-> "none", answer |-> FALSE, weights |-> <<>>,
     prior |-> <<>>, types |-> {}]

EmptyIndex ==
    [documents |-> <<>>, document_tokens |-> <<>>,
     retriever |-> [indexed |-> FALSE, corpus |-> <<>>, gen |-> 0], gen |-> 0]

\* the manager after __init__ under config, no index file on disk
NoStore(config) ==
    [config |-> config, snapshot |-> NoSnapshot, docs_mtime |-> 0, clock |-> 0,
     index_timestamp |-> NoTimestamp, built_hash |-> <<>>, running |-> TRUE]

\* both lru_caches empty; <<>> is no entry, <<v>> the entry v
NoMemo ==
    [section_types |-> <<>>, node_types |-> <<>>]

\* the service after __init__: the cache is enabled and empty, save_index is
\* off and _initialize_index has built the index from a well-formed corpus file
Init ==
    /\ max_size \in 0..MaxSize
    /\ lru = NoMemo
    /\ _search_service = 0
    /\ instances = 0
    /\ docs_file = "A"
    /\ index = build_index(EmptyIndex, "A").index
    /\ cache = <<>>
    /\ hits = 0
    /\ misses = 0
    /\ search_count = 0
    /\ now = 0
    /\ calls = 0
    /\ last = Call("init")
    /\ thr = [t \in Threads |-> Idle]
    /\ lock = NoOwner
    /\ lin = [cache |-> <<>>, hits |-> 0, misses |-> 0]
    /\ gets_done = 0
    /\ tok = NoTokenizerCall
    /\ store = BuildIndex(NoStore(CfgNoSave), EmptyIndex, "A", "none").store

\* a call made while no other call is running completes and becomes last
Complete(rec) ==
    /\ calls < MaxCalls
    /\ \A t \in Threads : thr[t].pc = "idle"
    /\ calls' = calls + 1
    /\ last' = rec
    /\ UNCHANGED <<thr, lock, lin, gets_done, tok>>

\* ------------------------------------------------------------------------
\* BM25DocumentationSearch: the operations, each as one step
\* ------------------------------------------------------------------------

\* what search returns without an exception: the result list and the fields
\* of SearchStats
Returned(results, total_results, cache_hit, gen) ==
    [results |-> results, total_results |-> total_results,
     results_returned |-> Len(results), cache_hit |-> cache_hit,
     raised |-> FALSE, fault |-> "none", gen |-> gen]

\* an except clause that counts the failed search
except_clause_Counting(c, fault) ==
    [state |-> [c EXCEPT !.search_count = c.search_count + 1],
     ret |-> [Returned(<<>>, 0, FALSE, 0) EXCEPT !.fault = fault]]

\* the except clause of search, entered with the state c the try block left
\* behind when `fault` raised
except_clause(c, fault) ==
    [state |-> c, ret |-> [Returned(<<>>, 0, FALSE, 0) EXCEPT !.fault = fault]]

\* what search returns and the state it leaves, computed from the state c =
\* [cache, hits, misses, search_count] it starts in at time t
search_outcome(c, idx, capacity, t, query, top_k, filters, include_highlights) ==
    IF IsBlank(query) THEN [state |-> c, ret |-> Returned(<<>>, 0, FALSE, 0)]
    ELSE
        Bind(EffectiveTopK(top_k), LAMBDA k :
        Bind(_make_key(query, k, filters), LAMBDA key :
        Bind(cache_get(c, key, t), LAMBDA got :
        Bind([c EXCEPT !.cache = got.cache, !.hits = got.hits, !.misses = got.misses],
             LAMBDA looked :
            IF got.found /\ got.results # <<>> THEN
                [state |-> looked,
                 ret |-> Returned(got.results, Len(got.results), TRUE, got.gen)]
            ELSE
                Bind(preprocess_text(text_processing, query), LAMBDA query_tokens :
                    IF query_tokens = <<>> THEN
                        [state |-> looked, ret |-> Returned(<<>>, 0, FALSE, 0)]
                    ELSE
                        Bind(Pipeline(idx, query, query_tokens, k, filters,
                                      include_highlights), LAMBDA p :
                            IF p.fault # "none" THEN except_clause(looked, p.fault)
                            ELSE
                                Bind(cache_set(got.cache, capacity, key, p.results, t,
                                               idx.retriever.gen), LAMBDA stored :
                                    IF stored.raised
                                        THEN except_clause(looked, "cache_store")
                                    ELSE
                                        [state |-> [looked EXCEPT
                                             !.cache = stored.cache,
                                             !.search_count = c.search_count + 1],
                                         ret |-> Returned(p.results, p.total_results,
                                                          FALSE, idx.retriever.gen)])))))))

Search(query, top_k, filters, include_highlights) ==
    \E out \in {search_outcome(
                    [cache |-> cache, hits |-> hits, misses |-> misses,
                     search_count |-> search_count],
                    index, max_size, now, query, top_k, filters, include_highlights)} :
        /\ Complete([Call("search") EXCEPT
               !.query = query, !.top_k = top_k, !.filters = filters,
               !.include_highlights = include_highlights,
               !.results = out.ret.results,
               !.total_results = out.ret.total_results,
               !.results_returned = out.ret.results_returned,
               !.cache_hit = out.ret.cache_hit,
               !.raised = out.ret.raised,
               !.fault = out.ret.fault,
               !.gen = out.ret.gen])
        /\ cache' = out.state.cache
        /\ hits' = out.state.hits
        /\ misses' = out.state.misses
        /\ search_count' = out.state.search_count
        /\ UNCHANGED <<max_size, lru, _search_service, instances, tok, store, docs_file, index, now>>

\* rebuild_index, called when the corpus file holds `file`: build_index, then
\* cache.clear() and True; False when build_index raised
RebuildIndex(file) ==
    \E outcome \in BuildOutcomes(store.config, file) :
    \E built \in {BuildIndex(WriteCorpus(store, docs_file, file), index, file, outcome)} :
        LET c == [cache |-> cache, hits |-> hits, misses |-> misses]
            cleared == IF built.raised THEN c ELSE cache_clear(c)
        IN  /\ Complete([Call("rebuild_index") EXCEPT
                   !.ok = ~built.raised,
                   !.gen = built.index.gen,
                   !.save = built.save,
                   !.removed = Len(cache) - Len(cleared.cache)])
            /\ index' = built.index
            /\ store' = built.store
            /\ cache' = cleared.cache
            /\ hits' = cleared.hits
            /\ misses' = cleared.misses
            /\ docs_file' = file
            /\ UNCHANGED <<max_size, lru, _search_service, instances, tok, search_count, now>>

\* clear_cache
ClearCache ==
    LET cleared == cache_clear([cache |-> cache, hits |-> hits, misses |-> misses])
    IN  /\ Complete([Call("clear_cache") EXCEPT !.ok = TRUE, !.removed = Len(cache)])
        /\ cache' = cleared.cache
        /\ hits' = cleared.hits
        /\ misses' = cleared.misses
        /\ UNCHANGED <<max_size, lru, _search_service, instances, tok, store, docs_file, index, search_count, now>>

\* the clock advances
Tick ==
    /\ now < MaxNow
    /\ now' = now + 1
    /\ UNCHANGED <<max_size, lru, _search_service, instances, tok, store, docs_file, index, cache, hits, misses, search_count, calls, last,
                   thr, lock, lin, gets_done>>

\* the arguments the searches of Spec are made with: query, top_k (<<>> is
\* None), filters and include_highlights
SearchArgs ==
    {<<Q_empty, <<>>, <<>>, TRUE>>,
     <<Q_blank, <<>>, <<>>, TRUE>>,
     <<Q_the, <<>>, <<>>, TRUE>>,
     <<Q_zzz, <<>>, <<>>, TRUE>>,
     <<Q_slack, <<>>, <<>>, TRUE>>,
     <<Q_slack, <<0>>, <<>>, TRUE>>,
     <<Q_slack, <<-1>>, <<>>, TRUE>>,
     <<Q_slack, <<MaxTopK + 1>>, <<>>, TRUE>>}

\* what the corpus file holds when rebuild_index is called
RebuildFiles ==
    {"B", "junk", "missing"}

Next ==
    \/ \E a \in SearchArgs : Search(a[1], a[2], a[3], a[4])
    \/ \E file \in RebuildFiles : RebuildIndex(file)
    \/ ClearCache
    \/ Tick

Spec ==
    Init /\ [][Next]_vars

\* ------------------------------------------------------------------------
\* SearchCache called directly (SpecCache)
\* ------------------------------------------------------------------------

\* the keys held by a dict
KeysOf(entries) ==
    {entries[i].key : i \in 1..Len(entries)}

\* the number of keys of `before` that `after` no longer holds
Removed(before, after) ==
    Cardinality(KeysOf(before) \ KeysOf(after))

\* cache.get(query, top_k, filters)
CacheGet(query, top_k, filters) ==
    LET key == _make_key(query, top_k, filters)
        got == cache_get([cache |-> cache, hits |-> hits, misses |-> misses], key, now)
    IN  /\ Complete([Call("get") EXCEPT
               !.query = query, !.top_k = <<top_k>>, !.filters = filters,
               !.found = got.found, !.results = got.results,
               !.removed = Removed(cache, got.cache)])
        /\ cache' = got.cache
        /\ hits' = got.hits
        /\ misses' = got.misses
        /\ UNCHANGED <<max_size, lru, _search_service, instances, tok, store, docs_file, index, search_count, now>>

\* cache.set(query, top_k, results, filters); found records whether the key
\* was in the cache before the call
CacheSet(query, top_k, results, filters) ==
    LET key == _make_key(query, top_k, filters)
        stored == cache_set(cache, max_size, key, results, now, 0)
    IN  /\ Complete([Call("set") EXCEPT
               !.query = query, !.top_k = <<top_k>>, !.filters = filters,
               !.results = results, !.raised = stored.raised,
               !.found = (key \in KeysOf(cache)),
               !.removed = Removed(cache, stored.cache)])
        /\ cache' = stored.cache
        /\ UNCHANGED <<max_size, lru, _search_service, instances, tok, store, docs_file, index, hits, misses, search_count, now>>

\* cache.clear()
CacheClear ==
    LET cleared == cache_clear([cache |-> cache, hits |-> hits, misses |-> misses])
    IN  /\ Complete([Call("clear") EXCEPT !.removed = Len(cache)])
        /\ cache' = cleared.cache
        /\ hits' = cleared.hits
        /\ misses' = cleared.misses
        /\ UNCHANGED <<max_size, lru, _search_service, instances, tok, store, docs_file, index, search_count, now>>

F_concept_Slack ==
    <<<<S_section_type, S_concept>>, <<S_node_type, S_Slack>>>>

\* the filters of F_concept_Slack, given in the other order
F_Slack_concept ==
    <<<<S_node_type, S_Slack>>, <<S_section_type, S_concept>>>>

F_general_Slack ==
    <<<<S_section_type, S_general>>, <<S_node_type, S_Slack>>>>

\* the (query, top_k, filters) the cache is called with in SpecCache
CacheArgs ==
    {<<Q_slack, 1, <<>>>>,
     <<Q_email, 2, <<>>>>,
     <<Q_slack, 1, F_concept_Slack>>,
     <<Q_slack, 1, F_Slack_concept>>,
     <<Q_slack, 1, F_general_Slack>>}

\* a result list as search computes it, and the empty one
SomeResults ==
    Pipeline(build_index(EmptyIndex, "A").index, Q_slack,
             preprocess_text(text_processing, Q_slack), 1, <<>>, FALSE).results

\* the (query, top_k, filters, results) set is called with in SpecCache
CacheSetArgs ==
    {<<a[1], a[2], a[3], SomeResults>> : a \in CacheArgs}
        \cup {<<Q_slack, 1, <<>>, <<>>>>}

NextCache ==
    \/ \E a \in CacheArgs : CacheGet(a[1], a[2], a[3])
    \/ \E a \in CacheSetArgs : CacheSet(a[1], a[2], a[4], a[3])
    \/ CacheClear
    \/ \E include_highlights \in BOOLEAN : Search(Q_slack, <<>>, <<>>, include_highlights)
    \/ Tick

SpecCache ==
    Init /\ [][NextCache]_vars

\* ------------------------------------------------------------------------
\* Calls that overlap: what the threads share
\* ------------------------------------------------------------------------

\* the number of calls that have started and not returned
Active ==
    Cardinality({t \in Threads : thr[t].pc # "idle"})

\* thread t may start a call
CanStart(t) ==
    /\ thr[t].pc = "idle"
    /\ calls + Active < MaxCalls

\* the call of thread t returns and becomes last
Finish(t, rec) ==
    /\ calls' = calls + 1
    /\ last' = rec
    /\ thr' = [thr EXCEPT ![t] = Idle]

\* ------------------------------------------------------------------------
\* SearchCache called by several threads, statement by statement
\* (SpecCacheConc)
\* ------------------------------------------------------------------------

\* a lock that lets every thread in
CanAcquire_Unlocked(owner, t) ==
    TRUE

\* `with self.lock` on the RLock: a thread enters when nobody holds the lock
\* or it holds the lock itself
CanAcquire(owner, t) ==
    owner = NoOwner \/ owner = t

\* get: the key is made before the lock is taken
GetStart(t, query, top_k, filters) ==
    /\ CanStart(t)
    /\ thr' = [thr EXCEPT ![t] = [Idle EXCEPT
           !.pc = "get_lock", !.op = "get", !.query = query, !.top_k = <<top_k>>,
           !.filters = filters, !.key = _make_key(query, top_k, filters)]]
    /\ UNCHANGED <<max_size, lru, _search_service, instances, tok, store, docs_file, index, cache, hits, misses, search_count, now,
                   calls, last, lock, lin, gets_done>>

\* set: the key is made before the lock is taken
SetStart(t, query, top_k, results, filters) ==
    /\ CanStart(t)
    /\ thr' = [thr EXCEPT ![t] = [Idle EXCEPT
           !.pc = "set_lock", !.op = "set", !.query = query, !.top_k = <<top_k>>,
           !.filters = filters, !.results = results,
           !.key = _make_key(query, top_k, filters)]]
    /\ UNCHANGED <<max_size, lru, _search_service, instances, tok, store, docs_file, index, cache, hits, misses, search_count, now,
                   calls, last, lock, lin, gets_done>>

ClearStart(t) ==
    /\ CanStart(t)
    /\ thr' = [thr EXCEPT ![t] = [Idle EXCEPT !.pc = "clear_lock", !.op = "clear"]]
    /\ UNCHANGED <<max_size, lru, _search_service, instances, tok, store, docs_file, index, cache, hits, misses, search_count, now,
                   calls, last, lock, lin, gets_done>>

\* `with self.lock:` of get, set and clear
Acquire(t) ==
    /\ thr[t].pc \in {"get_lock", "set_lock", "clear_lock"}
    /\ CanAcquire(lock, t)
    /\ lock' = t
    /\ thr' = [thr EXCEPT ![t].pc =
           CASE thr[t].pc = "get_lock" -> "get_check"
             [] thr[t].pc = "set_lock" -> "set_evict"
             [] OTHER -> "clear_entries"]
    /\ UNCHANGED <<max_size, lru, _search_service, instances, tok, store, docs_file, index, cache, hits, misses, search_count, now,
                   calls, last, lin, gets_done>>

\* get: the lookup, the expiry test, and the del of an expired entry.  The
\* history runs the whole get here.
GetCheck(t) ==
    LET i == KeyIndex(cache, thr[t].key)
        fresh == i # 0 /\ NotExpired(cache[i].timestamp, now)
        alone == cache_get(lin, thr[t].key, now)
    IN  /\ thr[t].pc = "get_check"
        /\ cache' = IF i # 0 /\ ~fresh THEN RemoveAt(cache, i) ELSE cache
        /\ thr' = [thr EXCEPT
               ![t].pc = IF fresh THEN "get_hit" ELSE "get_miss",
               ![t].found = fresh,
               ![t].results = IF fresh THEN cache[i].results ELSE <<>>,
               ![t].alone = [found |-> alone.found, results |-> alone.results]]
        /\ lin' = [cache |-> alone.cache, hits |-> alone.hits, misses |-> alone.misses]
        /\ UNCHANGED <<max_size, lru, _search_service, instances, tok, store, docs_file, index, hits, misses, search_count, now,
                       calls, last, lock, gets_done>>

\* get: the read of self.hits += 1 or self.misses += 1
GetCountRead(t) ==
    /\ thr[t].pc \in {"get_hit", "get_miss"}
    /\ thr' = [thr EXCEPT
           ![t].tmp = IF thr[t].pc = "get_hit" THEN hits ELSE misses,
           ![t].pc = IF thr[t].pc = "get_hit" THEN "get_hit_write" ELSE "get_miss_write"]
    /\ UNCHANGED <<max_size, lru, _search_service, instances, tok, store, docs_file, index, cache, hits, misses, search_count, now,
                   calls, last, lock, lin, gets_done>>

\* get: the write of self.hits += 1 or self.misses += 1, the release of the
\* lock and the return
GetCountWrite(t) ==
    /\ thr[t].pc \in {"get_hit_write", "get_miss_write"}
    /\ hits' = IF thr[t].pc = "get_hit_write" THEN thr[t].tmp + 1 ELSE hits
    /\ misses' = IF thr[t].pc = "get_miss_write" THEN thr[t].tmp + 1 ELSE misses
    /\ lock' = NoOwner
    /\ gets_done' = gets_done + 1
    /\ Finish(t, [Call("get") EXCEPT
           !.query = thr[t].query, !.top_k = thr[t].top_k, !.filters = thr[t].filters,
           !.found = thr[t].found, !.results = thr[t].results])
    /\ UNCHANGED <<max_size, lru, _search_service, instances, tok, store, docs_file, index, cache, search_count, now, lin>>

\* set: the eviction.  min() of an empty dict raises, which releases the
\* lock and ends the call.
SetEvict(t) ==
    /\ thr[t].pc = "set_evict"
    /\ IF Len(cache) >= max_size /\ cache = <<>>
           THEN /\ lock' = NoOwner
                /\ Finish(t, [Call("set") EXCEPT
                       !.query = thr[t].query, !.top_k = thr[t].top_k,
                       !.filters = thr[t].filters, !.results = thr[t].results,
                       !.raised = TRUE])
                /\ UNCHANGED cache
           ELSE /\ cache' = IF Len(cache) >= max_size
                                THEN RemoveAt(cache, OldestIndex(cache))
                                ELSE cache
                /\ thr' = [thr EXCEPT ![t].pc = "set_store"]
                /\ UNCHANGED <<lock, calls, last>>
    /\ UNCHANGED <<max_size, lru, _search_service, instances, tok, store, docs_file, index, hits, misses, search_count, now,
                   lin, gets_done>>

\* set: the store, the release of the lock and the return.  The history runs
\* the whole set here.
SetStore(t) ==
    /\ thr[t].pc = "set_store"
    /\ cache' = Store(cache, thr[t].key, thr[t].results, now, 0)
    /\ lin' = [lin EXCEPT !.cache =
           cache_set(lin.cache, max_size, thr[t].key, thr[t].results, now, 0).cache]
    /\ lock' = NoOwner
    /\ Finish(t, [Call("set") EXCEPT
           !.query = thr[t].query, !.top_k = thr[t].top_k, !.filters = thr[t].filters,
           !.results = thr[t].results])
    /\ UNCHANGED <<max_size, lru, _search_service, instances, tok, store, docs_file, index, hits, misses, search_count, now, gets_done>>

\* clear: self.cache.clear().  The history runs the whole clear here.
ClearEntries(t) ==
    /\ thr[t].pc = "clear_entries"
    /\ cache' = <<>>
    /\ thr' = [thr EXCEPT ![t].pc = "clear_counters", ![t].tmp = Len(cache)]
    /\ lin' = cache_clear(lin)
    /\ gets_done' = 0
    /\ UNCHANGED <<max_size, lru, _search_service, instances, tok, store, docs_file, index, hits, misses, search_count, now,
                   calls, last, lock>>

\* clear: self.hits = 0, self.misses = 0, the release of the lock and the
\* return
ClearCounters(t) ==
    /\ thr[t].pc = "clear_counters"
    /\ hits' = 0
    /\ misses' = 0
    /\ lock' = NoOwner
    /\ Finish(t, [Call("clear") EXCEPT !.removed = thr[t].tmp])
    /\ UNCHANGED <<max_size, lru, _search_service, instances, tok, store, docs_file, index, cache, search_count, now, lin, gets_done>>

\* the (query, top_k, filters) of the overlapping cache calls
ConcCacheArgs ==
    {<<Q_slack, 1, <<>>>>, <<Q_email, 2, <<>>>>}

NextCacheConc ==
    \/ \E t \in Threads, a \in ConcCacheArgs : GetStart(t, a[1], a[2], a[3])
    \/ \E t \in Threads, a \in ConcCacheArgs : SetStart(t, a[1], a[2], SomeResults, a[3])
    \/ \E t \in Threads : ClearStart(t)
    \/ \E t \in Threads : Acquire(t)
    \/ \E t \in Threads : GetCheck(t)
    \/ \E t \in Threads : GetCountRead(t)
    \/ \E t \in Threads : GetCountWrite(t)
    \/ \E t \in Threads : SetEvict(t)
    \/ \E t \in Threads : SetStore(t)
    \/ \E t \in Threads : ClearEntries(t)
    \/ \E t \in Threads : ClearCounters(t)
    \/ Tick

SpecCacheConc ==
    Init /\ [][NextCacheConc]_vars

\* ------------------------------------------------------------------------
\* search and rebuild_index called by several threads (SpecConc).  Each
\* step is one read or write of what the threads share; a cache call is one
\* step, the lock making it so.
\* ------------------------------------------------------------------------

\* the state the except clause of search starts from
Shared ==
    [cache |-> cache, hits |-> hits, misses |-> misses, search_count |-> search_count]

\* search of thread t raises `fault`: the except clause returns
SearchFails(t, fault) ==
    LET out == except_clause(Shared, fault)
    IN  /\ cache' = out.state.cache
        /\ hits' = out.state.hits
        /\ misses' = out.state.misses
        /\ search_count' = out.state.search_count
        /\ Finish(t, [Call("search") EXCEPT
               !.query = thr[t].query, !.top_k = thr[t].top_k,
               !.filters = thr[t].filters,
               !.include_highlights = thr[t].include_highlights,
               !.results = out.ret.results,
               !.total_results = out.ret.total_results,
               !.results_returned = out.ret.results_returned,
               !.cache_hit = out.ret.cache_hit,
               !.raised = out.ret.raised,
               !.fault = out.ret.fault])

\* search of thread t returns
SearchReturns(t, ret) ==
    Finish(t, [Call("search") EXCEPT
        !.query = thr[t].query, !.top_k = thr[t].top_k, !.filters = thr[t].filters,
        !.include_highlights = thr[t].include_highlights,
        !.results = ret.results,
        !.total_results = ret.total_results,
        !.results_returned = ret.results_returned,
        !.cache_hit = ret.cache_hit,
        !.gen = ret.gen])

\* search: the blank check, the default and the limit of top_k
SearchStart(t, query, top_k, filters, include_highlights) ==
    /\ CanStart(t)
    /\ IF IsBlank(query)
           THEN Finish(t, [Call("search") EXCEPT
                    !.query = query, !.top_k = top_k, !.filters = filters,
                    !.include_highlights = include_highlights])
           ELSE /\ thr' = [thr EXCEPT ![t] = [Idle EXCEPT
                       !.pc = "search_lookup", !.op = "search", !.query = query,
                       !.top_k = top_k, !.k = EffectiveTopK(top_k), !.filters = filters,
                       !.include_highlights = include_highlights,
                       !.key = _make_key(query, EffectiveTopK(top_k), filters)]]
                /\ UNCHANGED <<calls, last>>
    /\ UNCHANGED <<max_size, lru, _search_service, instances, tok, store, docs_file, index, cache, hits, misses, search_count, now,
                   lock, lin, gets_done>>

\* search: cache.get, the return of a hit, and the tokens of the query
SearchLookup(t) ==
    \E got \in {cache_get([cache |-> cache, hits |-> hits, misses |-> misses],
                          thr[t].key, now)},
       query_tokens \in {preprocess_text(text_processing, thr[t].query)} :
        /\ thr[t].pc = "search_lookup"
        /\ cache' = got.cache
        /\ hits' = got.hits
        /\ misses' = got.misses
        /\ IF got.found /\ got.results # <<>>
               THEN SearchReturns(t, Returned(got.results, Len(got.results), TRUE, got.gen))
           ELSE IF query_tokens = <<>>
               THEN SearchReturns(t, Returned(<<>>, 0, FALSE, 0))
           ELSE /\ thr' = [thr EXCEPT ![t].pc = "search_score",
                                      ![t].query_tokens = query_tokens]
                /\ UNCHANGED <<calls, last>>
        /\ UNCHANGED <<max_size, lru, _search_service, instances, tok, store, docs_file, index, search_count, now, lock, lin, gets_done>>

\* search: retriever.get_scores on the retriever of this moment
SearchScore(t) ==
    \E scored \in {ScoreStage(index.retriever, thr[t].query_tokens)} :
        /\ thr[t].pc = "search_score"
        /\ IF scored.fault # "none"
               THEN SearchFails(t, scored.fault)
               ELSE /\ thr' = [thr EXCEPT ![t].pc = "search_rank",
                                          ![t].doc_scores = scored.doc_scores,
                                          ![t].gen = index.retriever.gen]
                    /\ UNCHANGED <<cache, hits, misses, search_count, calls, last>>
        /\ UNCHANGED <<max_size, lru, _search_service, instances, tok, store, docs_file, index, now, lock, lin, gets_done>>

\* search: weighting, boost, filters, sort and truncation on the documents of
\* this moment
SearchRank(t) ==
    \E ranked \in {RankStage(index.documents, thr[t].doc_scores, thr[t].query,
                             thr[t].k, thr[t].filters)} :
        /\ thr[t].pc = "search_rank"
        /\ IF ranked.fault # "none"
               THEN SearchFails(t, ranked.fault)
               ELSE /\ thr' = [thr EXCEPT ![t].pc = "search_results",
                                          ![t].limited = ranked.limited,
                                          ![t].total_results = ranked.total_results]
                    /\ UNCHANGED <<cache, hits, misses, search_count, calls, last>>
        /\ UNCHANGED <<max_size, lru, _search_service, instances, tok, store, docs_file, index, now, lock, lin, gets_done>>

\* search: the SearchResult objects, from the documents of this moment
SearchResults(t) ==
    \E made \in {ResultStage(index.documents, thr[t].limited, thr[t].query,
                             thr[t].include_highlights)} :
        /\ thr[t].pc = "search_results"
        /\ IF made.fault # "none"
               THEN SearchFails(t, made.fault)
               ELSE /\ thr' = [thr EXCEPT ![t].pc = "search_store",
                                          ![t].results = made.results]
                    /\ UNCHANGED <<cache, hits, misses, search_count, calls, last>>
        /\ UNCHANGED <<max_size, lru, _search_service, instances, tok, store, docs_file, index, now, lock, lin, gets_done>>

\* search: cache.set
SearchStore(t) ==
    \E stored \in {cache_set(cache, max_size, thr[t].key, thr[t].results, now,
                             thr[t].gen)} :
        /\ thr[t].pc = "search_store"
        /\ IF stored.raised
               THEN SearchFails(t, "cache_store")
               ELSE /\ cache' = stored.cache
                    /\ thr' = [thr EXCEPT ![t].pc = "search_count"]
                    /\ UNCHANGED <<hits, misses, search_count, calls, last>>
        /\ UNCHANGED <<max_size, lru, _search_service, instances, tok, store, docs_file, index, now, lock, lin, gets_done>>

\* search: the read of self.search_count += 1
SearchCountRead(t) ==
    /\ thr[t].pc = "search_count"
    /\ thr' = [thr EXCEPT ![t].pc = "search_count_write", ![t].tmp = search_count]
    /\ UNCHANGED <<max_size, lru, _search_service, instances, tok, store, docs_file, index, cache, hits, misses, search_count, now,
                   calls, last, lock, lin, gets_done>>

\* search: the write of self.search_count += 1, and the return
SearchCountWrite(t) ==
    /\ thr[t].pc = "search_count_write"
    /\ search_count' = thr[t].tmp + 1
    /\ SearchReturns(t, Returned(thr[t].results, thr[t].total_results, FALSE, thr[t].gen))
    /\ UNCHANGED <<max_size, lru, _search_service, instances, tok, store, docs_file, index, cache, hits, misses, now, lock, lin,
                   gets_done>>

\* rebuild_index is called when the corpus file holds `file`
RebuildStart(t, file) ==
    /\ CanStart(t)
    /\ docs_file' = file
    /\ store' = WriteCorpus(store, docs_file, file)
    /\ thr' = [thr EXCEPT ![t] = [Idle EXCEPT
           !.pc = "rebuild_load", !.op = "rebuild_index", !.file = file]]
    /\ UNCHANGED <<max_size, lru, _search_service, instances, tok, index, cache, hits, misses, search_count, now, calls, last,
                   lock, lin, gets_done>>

\* build_index: self.documents = self.load_documentation() and
\* self.document_tokens = []
RebuildLoad(t) ==
    LET loaded == load_documentation(thr[t].file)
    IN  /\ thr[t].pc = "rebuild_load"
        /\ IF loaded.raised
               THEN /\ Finish(t, [Call("rebuild_index") EXCEPT !.gen = index.gen])
                    /\ UNCHANGED index
               ELSE /\ index' = [index EXCEPT !.documents = loaded.sections,
                                              !.document_tokens = <<>>,
                                              !.gen = index.gen + 1]
                    /\ thr' = [thr EXCEPT ![t].pc = "rebuild_tokens"]
                    /\ UNCHANGED <<calls, last>>
        /\ UNCHANGED <<max_size, lru, _search_service, instances, tok, store, docs_file, cache, hits, misses, search_count, now,
                       lock, lin, gets_done>>

\* build_index: the loop that fills self.document_tokens
RebuildTokens(t) ==
    LET junk == FirstJunk(index.documents)
        tokens == [i \in 1..Len(index.documents) |-> DocTokens(index.documents[i])]
    IN  /\ thr[t].pc = "rebuild_tokens"
        /\ IF junk # 0
               THEN /\ index' = [index EXCEPT
                           !.document_tokens = SubSeq(tokens, 1, junk - 1)]
                    /\ Finish(t, [Call("rebuild_index") EXCEPT !.gen = index.gen])
               ELSE /\ index' = [index EXCEPT !.document_tokens = tokens]
                    /\ thr' = [thr EXCEPT ![t].pc = "rebuild_retriever"]
                    /\ UNCHANGED <<calls, last>>
        /\ UNCHANGED <<max_size, lru, _search_service, instances, tok, store, docs_file, cache, hits, misses, search_count, now,
                       lock, lin, gets_done>>

\* build_index: self.retriever = bm25s.BM25(...), a retriever that has
\* indexed nothing yet
RebuildRetriever(t) ==
    /\ thr[t].pc = "rebuild_retriever"
    /\ index' = [index EXCEPT
           !.retriever = [indexed |-> FALSE, corpus |-> <<>>, gen |-> index.gen]]
    /\ thr' = [thr EXCEPT ![t].pc = "rebuild_index"]
    /\ UNCHANGED <<max_size, lru, _search_service, instances, tok, store, docs_file, cache, hits, misses, search_count, now, calls,
                   last, lock, lin, gets_done>>

\* build_index: self.retriever.index(self.document_tokens), the save_index
\* call if configured, and self.index_timestamp = datetime.now()
RebuildIndexes(t) ==
    /\ thr[t].pc = "rebuild_index"
    /\ index' = [index EXCEPT
           !.retriever = IndexedRetriever(index.document_tokens, index.gen)]
    /\ \E outcome \in OutcomesFor(store.config) :
       \E saved \in {IF store.config.index.save_index
                          THEN save_index(store, index', outcome).store
                          ELSE store} :
               store' = [saved EXCEPT
                            !.index_timestamp = store.clock,
                            !.built_hash = _get_config_hash(store.config)]
    /\ thr' = [thr EXCEPT ![t].pc = "rebuild_clear"]
    /\ UNCHANGED <<max_size, lru, _search_service, instances, tok, docs_file, cache, hits, misses, search_count, now, calls,
                   last, lock, lin, gets_done>>

\* rebuild_index: self.cache.clear() and return True
RebuildClear(t) ==
    LET cleared == cache_clear([cache |-> cache, hits |-> hits, misses |-> misses])
    IN  /\ thr[t].pc = "rebuild_clear"
        /\ cache' = cleared.cache
        /\ hits' = cleared.hits
        /\ misses' = cleared.misses
        /\ Finish(t, [Call("rebuild_index") EXCEPT
               !.ok = TRUE, !.gen = index.gen,
               !.removed = Len(cache) - Len(cleared.cache)])
        /\ UNCHANGED <<max_size, lru, _search_service, instances, tok, store, docs_file, index, search_count, now, lock, lin, gets_done>>

\* the searches of SpecConc
ConcSearchArgs ==
    {<<Q_slack, <<>>, <<>>, FALSE>>, <<Q_blank, <<>>, <<>>, FALSE>>}

\* what the corpus file holds when rebuild_index is called in SpecConc
ConcRebuildFiles ==
    {"B"}

NextConc ==
    \/ \E t \in Threads, a \in ConcSearchArgs : SearchStart(t, a[1], a[2], a[3], a[4])
    \/ \E t \in Threads : SearchLookup(t)
    \/ \E t \in Threads : SearchScore(t)
    \/ \E t \in Threads : SearchRank(t)
    \/ \E t \in Threads : SearchResults(t)
    \/ \E t \in Threads : SearchStore(t)
    \/ \E t \in Threads : SearchCountRead(t)
    \/ \E t \in Threads : SearchCountWrite(t)
    \/ \E t \in Threads, file \in ConcRebuildFiles : RebuildStart(t, file)
    \/ \E t \in Threads : RebuildLoad(t)
    \/ \E t \in Threads : RebuildTokens(t)
    \/ \E t \in Threads : RebuildRetriever(t)
    \/ \E t \in Threads : RebuildIndexes(t)
    \/ \E t \in Threads : RebuildClear(t)
    \/ Tick

SpecConc ==
    Init /\ [][NextConc]_vars

\* ------------------------------------------------------------------------
\* Properties of the sequential service (Spec)
\* ------------------------------------------------------------------------

\* a call has just completed
CallStep ==
    calls' = calls + 1

BlankQueries ==
    {Q_empty, Q_blank}

\* C1: a rebuild_index that returns True leaves the cache empty, and the
\* first search after it is no cache hit: its results, if any, are computed
\* from the index that rebuild built.  No entry computed from an earlier
\* retriever than the current one is ever in the cache, so none can be
\* returned by a later search.
C1_RebuildClearsCache ==
    /\ [](\A i \in 1..Len(cache) : cache[i].gen = index.retriever.gen)
    /\ [][/\ (CallStep /\ last'.op = "rebuild_index" /\ last'.ok) => cache' = <<>>
          /\ (CallStep /\ last.op = "rebuild_index" /\ last.ok /\ last'.op = "search")
               => /\ ~last'.cache_hit
                  /\ last'.results # <<>> => last'.gen = last.gen]_vars

\* a successful rebuild has just emptied a cache that held the entry of the
\* one search made before it
C1_Witness ==
    /\ last.op = "rebuild_index"
    /\ last.ok
    /\ last.removed > 0
    /\ cache = <<>>

\* C2: a non-blank search repeated at once with the same arguments, within
\* the TTL, is a cache hit returning the first call's results, and the hit
\* counter grows by one.  (Stated for the case most in the claim's favour:
\* the first call met no fault and its result list is in the cache.)
C2_RepeatIsHit ==
    [][(/\ CallStep
        /\ last.op = "search" /\ last'.op = "search"
        /\ last'.query = last.query /\ last'.top_k = last.top_k
        /\ last'.filters = last.filters
        /\ last'.include_highlights = last.include_highlights
        /\ last.query \notin BlankQueries
        /\ last.fault = "none"
        /\ \E i \in 1..Len(cache) :
              /\ cache[i].key = _make_key(last.query, EffectiveTopK(last.top_k), last.filters)
              /\ cache[i].results = last.results
              /\ now - cache[i].timestamp < TTL)
       => /\ last'.cache_hit
          /\ last'.results = last.results
          /\ hits' = hits + 1]_vars

\* C8: a search with an empty or whitespace-only query returns no results
\* and zero counts without raising, and changes neither the cache nor the
\* hit, miss and search counters.
C8_BlankQueryRejected ==
    [][(CallStep /\ last'.op = "search" /\ last'.query \in BlankQueries)
       => /\ last'.results = <<>>
          /\ last'.total_results = 0
          /\ last'.results_returned = 0
          /\ ~last'.raised
          /\ ~last'.cache_hit
          /\ UNCHANGED <<cache, hits, misses, search_count>>]_vars

\* a whitespace-only search has returned while the cache held an entry
C8_Witness ==
    /\ last.op = "search"
    /\ last.query = Q_blank
    /\ cache # <<>>
    /\ search_count > 0

\* C9: search never returns more than max_top_k results, and never more than
\* a top_k that lies within 0..max_top_k.
C9_AtMostTopK ==
    last.op = "search"
        => /\ Len(last.results) <= max_top_k
           /\ (last.top_k # <<>> /\ last.top_k[1] \in 0..max_top_k)
                => Len(last.results) <= last.top_k[1]

\* C10: a fault inside a search is absorbed: the call returns no results and
\* zero counts with cache_hit false, nothing reaches the caller, the call
\* stores no cache entry, and search_count stays as it was.
C10_FaultAbsorbed ==
    [][(CallStep /\ last'.op = "search" /\ last'.fault # "none")
       => /\ ~last'.raised
          /\ last'.results = <<>>
          /\ last'.total_results = 0
          /\ last'.results_returned = 0
          /\ ~last'.cache_hit
          /\ \A i \in 1..Len(cache') : \E j \in 1..Len(cache) : cache'[i] = cache[j]
          /\ search_count' = search_count]_vars

\* a search has met a fault while reading documents, with an entry in the
\* cache from an earlier search
C10_Witness ==
    /\ last.op = "search"
    /\ last.fault = "weighting"
    /\ cache # <<>>
    /\ search_count > 0

\* ------------------------------------------------------------------------
\* Properties of the cache called directly (SpecCache)
\* ------------------------------------------------------------------------

\* the entries of the dict that hold the key of a get or set call
EntriesFor(entries, call) ==
    {i \in 1..Len(entries) :
        entries[i].key = _make_key(call.query, call.top_k[1], call.filters)}

\* C3: get returns the stored results only while the entry is younger than
\* the TTL; on an entry whose age has reached the TTL it returns a miss,
\* removes the entry, and counts a miss and no hit; a search whose lookup
\* meets such an entry reports cache_hit false.
C3_ExpiryOnGet ==
    [][/\ (CallStep /\ last'.op = "get")
            => \A i \in EntriesFor(cache, last') :
                  IF now - cache[i].timestamp < TTL
                      THEN /\ last'.found
                           /\ last'.results = cache[i].results
                           /\ hits' = hits + 1
                           /\ misses' = misses
                           /\ cache' = cache
                      ELSE /\ ~last'.found
                           /\ EntriesFor(cache', last') = {}
                           /\ Len(cache') = Len(cache) - 1
                           /\ misses' = misses + 1
                           /\ hits' = hits
       /\ (CallStep /\ last'.op = "get" /\ last'.found)
            => \E i \in EntriesFor(cache, last') : now - cache[i].timestamp < TTL
       /\ (CallStep /\ last'.op = "search")
            => \A i \in 1..Len(cache) :
                  (/\ cache[i].key = _make_key(last'.query, EffectiveTopK(last'.top_k),
                                              last'.filters)
                   /\ now - cache[i].timestamp >= TTL)
                  => /\ ~last'.cache_hit
                     /\ misses' = misses + 1
                     /\ hits' = hits]_vars

\* a get has just removed an entry whose age had reached the TTL
C3_Witness ==
    /\ last.op = "get"
    /\ ~last.found
    /\ last.removed = 1
    /\ misses > 0
    /\ now >= TTL

SameFilterPairs(f, g) ==
    {f[i] : i \in 1..Len(f)} = {g[i] : i \in 1..Len(g)}

\* C5: a get finds what a set just stored under the same query, the same
\* limit and the same filter pairs, in whatever order the pairs are given.
C5_KeyIgnoresFilterOrder ==
    [][(/\ CallStep
        /\ last.op = "set" /\ ~last.raised
        /\ last'.op = "get"
        /\ last'.query = last.query
        /\ last'.top_k = last.top_k
        /\ SameFilterPairs(last'.filters, last.filters)
        /\ now < TTL)
       => last'.found]_vars

\* ------------------------------------------------------------------------
\* Properties of overlapping calls (SpecCacheConc, SpecConc)
\* ------------------------------------------------------------------------

\* the threads that are past the lookup of a get
InGet(t) ==
    thr[t].pc \in {"get_hit", "get_miss", "get_hit_write", "get_miss_write"}

\* C6: overlapping get, set and clear calls take effect one at a time.
\* Whenever the lock is free, the entries and both counters are what the
\* calls leave when run alone one after the other in the order they took the
\* lock, and hits + misses is the number of gets completed since the last
\* clear; every get returns what it returns in that run; the number of
\* entries never exceeds max_size.
C6_Atomic ==
    /\ Len(cache) <= max_size
    /\ lock = NoOwner
        => /\ hits + misses = gets_done
           /\ lin = [cache |-> cache, hits |-> hits, misses |-> misses]
    /\ \A t \in Threads :
          InGet(t) => /\ thr[t].found = thr[t].alone.found
                      /\ thr[t].results = thr[t].alone.results

\* a set holds the lock after evicting an entry, a second thread waits for
\* the lock with a get, and a get has completed before
C6_Witness ==
    \E t, u \in Threads :
        /\ t # u
        /\ lock = t
        /\ thr[t].pc = "set_store"
        /\ Len(cache) < max_size
        /\ thr[u].pc = "get_lock"
        /\ gets_done > 0

\* C7: once a rebuild_index and every search that overlapped it have
\* returned, no cache entry holds results computed from a retriever older
\* than the current one.
C7_NoStaleEntries ==
    (\A t \in Threads : thr[t].pc = "idle")
        => \A i \in 1..Len(cache) : cache[i].gen = index.retriever.gen

\* ------------------------------------------------------------------------
\* Properties of the statistics and the highlights of search
\* ------------------------------------------------------------------------

\* the call that has just completed is a search with the arguments of the
\* search completed before it
SameSearchAgain ==
    /\ CallStep
    /\ last.op = "search" /\ last'.op = "search"
    /\ last'.query = last.query /\ last'.top_k = last.top_k
    /\ last'.filters = last.filters
    /\ last'.include_highlights = last.include_highlights

\* C11: for every search, results_returned is the length of the returned
\* list and is at most total_results, and a cache hit reports the
\* total_results of the miss that stored the entry.
C11_TotalBeforeTruncation ==
    [][/\ (CallStep /\ last'.op = "search")
            => /\ last'.results_returned = Len(last'.results)
               /\ last'.results_returned <= last'.total_results
       /\ (SameSearchAgain /\ ~last.cache_hit /\ last'.cache_hit)
            => last'.total_results = last.total_results]_vars

\* C12: every result of a search made with include_highlights false has no
\* highlight and every result of one made with include_highlights true has
\* one, whatever search came before.  (Stated for a search that follows a
\* search.)
C12_HighlightsAsRequested ==
    [][(CallStep /\ last.op = "search" /\ last'.op = "search")
       => \A n \in 1..Len(last'.results) :
             (last'.results[n].highlight # None) <=> last'.include_highlights]_vars

\* ------------------------------------------------------------------------
\* SpecIndex: the process is started and restarted under the configurations
\* of Configs, the corpus file is rewritten between calls, and save_index
\* meets every outcome of SaveOutcomes
\* ------------------------------------------------------------------------

\* the file clock stops here
MaxClock ==
    2

\* SpecIndex stops after this many calls
MaxIndexCalls ==
    2

\* before the first start: the corpus file is in place, no index file
InitIndex ==
    /\ max_size = MaxSize
    /\ lru = NoMemo
    /\ _search_service = 0
    /\ instances = 0
    /\ docs_file = "A"
    /\ index = EmptyIndex
    /\ cache = <<>>
    /\ hits = 0
    /\ misses = 0
    /\ search_count = 0
    /\ now = 0
    /\ calls = 0
    /\ last = Call("init")
    /\ thr = [t \in Threads |-> Idle]
    /\ lock = NoOwner
    /\ lin = [cache |-> <<>>, hits |-> 0, misses |-> 0]
    /\ gets_done = 0
    /\ tok = NoTokenizerCall
    /\ store = [NoStore(CfgDefault) EXCEPT !.running = FALSE]

\* _initialize_index of a new process: answer is what should_rebuild_index
\* returned; raised tells that RuntimeError left the constructor
_initialize_index(st, file, outcome) ==
    Bind(should_rebuild_index(st, file), LAMBDA answer :
        Bind(IF answer THEN BuildIndex(st, EmptyIndex, file, outcome)
                       ELSE load_index(st, EmptyIndex, file, outcome), LAMBDA done :
            [raised |-> done.raised, answer |-> answer, path |-> done.path,
             save |-> done.save, index |-> done.index, store |-> done.store]))

\* get_search_service() in a process that has no service yet:
\* BM25DocumentationSearch() under config
Startup(config) ==
    \E outcome \in BuildOutcomes(config, docs_file) :
    \E done \in {_initialize_index(
                    [NoStore(config) EXCEPT !.snapshot = store.snapshot,
                                            !.docs_mtime = store.docs_mtime,
                                            !.clock = store.clock],
                    docs_file, outcome)} :
        /\ Complete([Call("startup") EXCEPT
               !.raised = done.raised, !.ok = ~done.raised,
               !.answer = done.answer, !.path = done.path, !.save = done.save,
               !.gen = done.index.gen])
        /\ index' = IF done.raised THEN EmptyIndex ELSE done.index
        /\ store' = [done.store EXCEPT
               !.running = ~done.raised,
               !.index_timestamp = IF done.raised THEN NoTimestamp ELSE @,
               !.built_hash = IF done.raised THEN <<>> ELSE @]
        /\ cache' = <<>>
        /\ hits' = 0
        /\ misses' = 0
        /\ search_count' = 0
        /\ UNCHANGED <<max_size, lru, _search_service, instances, docs_file, now>>

\* index_manager.should_rebuild_index() of the running service
ShouldRebuild ==
    /\ store.running
    /\ Complete([Call("should_rebuild_index") EXCEPT
           !.answer = should_rebuild_index(store, docs_file)])
    /\ UNCHANGED <<max_size, lru, _search_service, instances, docs_file, index, cache, hits, misses, search_count, now,
                   store>>

\* the corpus file is written, removed or touched
TouchCorpus(file) ==
    /\ \A t \in Threads : thr[t].pc = "idle"
    /\ docs_file' = file
    /\ store' = [store EXCEPT !.docs_mtime = store.clock]
    /\ <<docs_file', store'>> # <<docs_file, store>>
    /\ UNCHANGED <<max_size, lru, _search_service, instances, index, cache, hits, misses, search_count, now, calls, last,
                   thr, lock, lin, gets_done, tok>>

\* half a microsecond passes
ClockTick ==
    /\ store.clock < MaxClock
    /\ store' = [store EXCEPT !.clock = store.clock + 1]
    /\ UNCHANGED <<max_size, lru, _search_service, instances, docs_file, index, cache, hits, misses, search_count, now,
                   calls, last, thr, lock, lin, gets_done, tok>>

\* what the corpus file is made to hold in SpecIndex
TouchFiles ==
    {"B", "invalid", "missing"}

NextIndex ==
    \/ calls < MaxIndexCalls /\ \E config \in Configs : Startup(config)
    \/ calls < MaxIndexCalls /\ ShouldRebuild
    \/ calls < MaxIndexCalls /\ store.running /\ RebuildIndex(docs_file)
    \/ calls < MaxIndexCalls /\ store.running /\ Search(Q_slack, <<>>, <<>>, TRUE)
    \/ \E file \in TouchFiles : TouchCorpus(file)
    \/ ClockTick

SpecIndex ==
    InitIndex /\ [][NextIndex]_vars

\* ------------------------------------------------------------------------
\* SpecTokens: TextProcessor.preprocess_text called on its own, for every
\* text_processing configuration and text below
\* ------------------------------------------------------------------------

T_fox ==
    <<"t", "h", "e", " ", "a", " ", "q", "u", "i", "c", "k", " ", "f", "o", "x">>

T_cats ==
    <<"c", "a", "t", "s">>

T_wills ==
    <<"w", "i", "l", "l", "s">>

T_TheCans ==
    <<"T", "h", "e", " ", "C", "a", "n", "s">>

T_webhooks ==
    <<"s", "l", "a", "c", "k", " ", "w", "e", "b", "-", "h", "o", "o", "k", "s", ",", " ", "o", "k">>

TokenizerTexts ==
    {<<>>, T_fox, T_cats, T_wills, T_TheCans, T_webhooks}

\* the text_processing sections the tokenizer is constructed with
TokenizerConfigs ==
    [lowercase : BOOLEAN, min_word_length : {2, 3, 4}, max_word_length : {5, 20},
     remove_stopwords : BOOLEAN, enable_stemming : BOOLEAN]

InitTokens ==
    /\ max_size = MaxSize
    /\ lru = NoMemo
    /\ _search_service = 0
    /\ instances = 0
    /\ docs_file = "A"
    /\ index = build_index(EmptyIndex, "A").index
    /\ cache = <<>>
    /\ hits = 0
    /\ misses = 0
    /\ search_count = 0
    /\ now = 0
    /\ calls = 0
    /\ last = Call("init")
    /\ thr = [t \in Threads |-> Idle]
    /\ lock = NoOwner
    /\ lin = [cache |-> <<>>, hits |-> 0, misses |-> 0]
    /\ gets_done = 0
    /\ store = BuildIndex(NoStore(CfgNoSave), EmptyIndex, "A", "none").store
    /\ tok \in [cfg : TokenizerConfigs, text : TokenizerTexts, done : {FALSE},
                tokens : {<<>>}]

\* tokens = self.text_processor.preprocess_text(text)
PreprocessText ==
    /\ ~tok.done
    /\ tok' = [tok EXCEPT !.done = TRUE, !.tokens = preprocess_text(tok.cfg, tok.text)]
    /\ UNCHANGED <<max_size, lru, _search_service, instances, docs_file, index, cache, hits, misses, search_count, now,
                   calls, last, thr, lock, lin, gets_done, store>>

NextTokens ==
    PreprocessText

SpecTokens ==
    InitTokens /\ [][NextTokens]_vars

\* C19: every term preprocess_text returns has a length between the configured
\* minimum and maximum word length, both inclusive, with stemming on or off.
C19_TermLengthInBounds ==
    tok.done =>
        \A i \in 1..Len(tok.tokens) :
            /\ tok.cfg.min_word_length <= Len(tok.tokens[i])
            /\ Len(tok.tokens[i]) <= tok.cfg.max_word_length

\* C20: with stopword removal on, no term preprocess_text returns is in the
\* stopword set, whatever the text, the stemming and the lowercasing options;
\* "the a quick fox" with minimum length 3 gives exactly ["quick", "fox"].
C20_NoStopwordInOutput ==
    (tok.done /\ tok.cfg.remove_stopwords) =>
        /\ \A i \in 1..Len(tok.tokens) : tok.tokens[i] \notin stopwords
        /\ (tok.text = T_fox /\ tok.cfg.min_word_length = 3)
               => tok.tokens = <<<<"q", "u", "i", "c", "k">>, <<"f", "o", "x">>>>

\* C18: whenever a search can run, after the initial build and after any
\* number of rebuild_index calls that succeeded or failed, the documents, the
\* per-document token lists and the corpus the retriever indexed have the same
\* length and order: position i of each describes documents[i].
C18_ParallelStructures ==
    /\ Len(index.documents) = Len(index.document_tokens)
    /\ index.retriever.indexed => index.retriever.corpus = index.document_tokens
    /\ \A i \in 1..Len(index.document_tokens) :
          /\ index.documents[i].kind = "dict"
          /\ index.document_tokens[i] = DocTokens(index.documents[i])

\* C13: should_rebuild_index returns true exactly when auto_rebuild is off
\* (rebuild on every load), or there is no index file, or the corpus file
\* exists and its modification time is strictly later than the index file's;
\* equal modification times give false.  Stated for the direct call and for
\* the call _initialize_index makes at startup.
C13_ShouldRebuildIff ==
    [][(CallStep /\ last'.op \in {"should_rebuild_index", "startup"})
       => (last'.answer <=>
              \/ ~store'.config.index.auto_rebuild
              \/ ~store.snapshot.exists
              \/ /\ CorpusFiles[docs_file].exists
                 /\ store.docs_mtime > store.snapshot.mtime)]_vars

\* a startup that went through load_index
LoadStep ==
    CallStep /\ last'.op = "startup" /\ ~last'.answer

\* the index in memory after the step is the one build_index makes from the
\* corpus file, stamped with the time of the step
BuiltFromCorpus ==
    /\ index'.documents = CorpusFiles[docs_file].sections
    /\ index'.document_tokens = [i \in 1..Len(index'.documents) |->
                                    DocTokens(index'.documents[i])]
    /\ index'.retriever.corpus = index'.document_tokens
    /\ store'.index_timestamp = store.clock

\* the index in memory after the step is the one the index file held
TakenFromSnapshot ==
    /\ index'.documents = store.snapshot.documents
    /\ index'.document_tokens = store.snapshot.document_tokens
    /\ index'.retriever.corpus = store.snapshot.retriever.corpus
    /\ store'.index_timestamp = store.snapshot.timestamp

\* C14: load_index never installs a snapshot written under a configuration
\* with another hash: on a hash mismatch, and when the file cannot be
\* unpickled, the index is built from the corpus; only when the hashes match
\* are documents, tokens, retriever and timestamp taken from the snapshot.
\* Whenever load_index returns normally the index in memory was built under
\* a configuration with the current hash.
C14_LoadChecksConfig ==
    [][LoadStep =>
        /\ last'.path = "installed"
             => /\ _get_config_hash(store.snapshot.built_under)
                      = _get_config_hash(store'.config)
                /\ TakenFromSnapshot
        /\ (/\ store.snapshot.readable
            /\ _get_config_hash(store.snapshot.built_under)
                  = _get_config_hash(store'.config))
             => last'.path = "installed"
        /\ (last'.ok /\ last'.path # "installed") => BuiltFromCorpus
        /\ last'.ok => store'.built_hash = _get_config_hash(store'.config)]_vars

\* a process started under another ranking or field-weight configuration
\* found the old snapshot and built the index anew
C14_Witness ==
    /\ last.op = "startup"
    /\ ~last.answer
    /\ last.path = "mismatch"
    /\ last.ok
    /\ store.built_hash = _get_config_hash(store.config)

\* the save_index call of the last build did not write the snapshot
SaveFailed(call) ==
    /\ call.op \in {"startup", "rebuild_index"}
    /\ call.save \in {"open_failed", "dump_failed"}

\* C15: when save_index fails inside build_index, build_index still returns
\* normally: no error reaches the caller of startup or rebuild_index, and
\* documents, tokens, retriever and index_timestamp are those of a build from
\* the corpus file; a search that follows is answered from that index.  What
\* differs from a build that saved is the index file alone.
C15_SaveFailureAbsorbed ==
    [][/\ (CallStep /\ SaveFailed(last'))
          => /\ last'.ok /\ ~last'.raised
             /\ BuiltFromCorpus
             /\ index'.retriever.indexed
             /\ store'.running
             /\ store'.built_hash = _get_config_hash(store'.config)
             /\ store'.snapshot \in
                    {store.snapshot,
                     [NoSnapshot EXCEPT !.exists = TRUE, !.mtime = store.clock]}
       /\ (CallStep /\ SaveFailed(last) /\ last'.op = "search")
          => /\ last'.fault = "none"
             /\ last'.results_returned > 0
             /\ last'.gen = index.retriever.gen]_vars

\* a build whose pickle.dump failed has returned normally and left a
\* populated index and an index file that cannot be loaded
C15_Witness ==
    /\ last.op \in {"startup", "rebuild_index"}
    /\ last.save = "dump_failed"
    /\ last.ok
    /\ index.retriever.indexed
    /\ Len(index.documents) > 0
    /\ store.index_timestamp # NoTimestamp
    /\ store.snapshot.exists /\ ~store.snapshot.readable

\* the sections of a configuration _get_config_hash reads
HashedSections(config) ==
    [bm25 |-> config.bm25, text_processing |-> config.text_processing,
     field_weights |-> config.field_weights]

\* the ranking parameters and text-processing options of a configuration
RankingAndText(config) ==
    [bm25 |-> config.bm25, text_processing |-> config.text_processing]

\* C16 as stated: the hash depends on the ranking parameters and the
\* text-processing options only, so a snapshot written under a configuration
\* with the same ranking parameters and text-processing options is installed
\* by load_index, whatever the field weights.
C16_HashOfRankingAndTextOnly ==
    [][(/\ LoadStep
        /\ store.snapshot.readable
        /\ RankingAndText(store.snapshot.built_under) = RankingAndText(store'.config))
       => /\ store.snapshot.config_hash = _get_config_hash(store'.config)
          /\ last'.path = "installed"]_vars

\* C16: the hash depends on the ranking parameters, the text-processing
\* options and the field weights only: configurations that agree on the three
\* have the same hash whatever their index and logging settings and whatever
\* the corpus holds, and a snapshot written under one is installed by
\* load_index under the other.
C16_HashOfThreeSections ==
    [][(/\ LoadStep
        /\ store.snapshot.readable
        /\ HashedSections(store.snapshot.built_under) = HashedSections(store'.config))
       => /\ store.snapshot.config_hash = _get_config_hash(store'.config)
          /\ last'.path = "installed"
          /\ TakenFromSnapshot]_vars

\* a process started with another logging setting installed the snapshot
\* the earlier process wrote
C16_Witness ==
    /\ last.op = "startup"
    /\ last.path = "installed"
    /\ store.snapshot.built_under # store.config
    /\ HashedSections(store.snapshot.built_under) = HashedSections(store.config)
    /\ index.documents = store.snapshot.documents

\* the corpus file is missing, is not valid JSON, or holds no sections list
BadCorpus ==
    ~CorpusFiles[docs_file].exists \/ ~CorpusFiles[docs_file].valid

\* a call that ran build_index
BuildStep ==
    /\ CallStep
    /\ \/ last'.op = "rebuild_index"
       \/ last'.op = "startup" /\ last'.path # "installed"

\* C17 as stated: with a missing or malformed corpus file build_index fails
\* and the error reaches whoever triggered the build: startup raises, and
\* rebuild_index raises to its caller.
C17_BuildErrorRaisedToCaller ==
    [][(BuildStep /\ BadCorpus) => last'.raised]_vars

\* C17: with a missing or malformed corpus file build_index fails.  At
\* startup the error leaves the constructor as RuntimeError and there is no
\* service.  rebuild_index catches it: it raises nothing and returns False,
\* and the index and the cache stay as they were.
C17_BuildErrorReported ==
    [][(BuildStep /\ BadCorpus)
       => /\ last'.op = "startup"
               => /\ last'.raised /\ ~last'.ok
                  /\ ~store'.running
          /\ last'.op = "rebuild_index"
               => /\ ~last'.raised /\ ~last'.ok
                  /\ store'.running
                  /\ index' = index
                  /\ cache' = cache]_vars

\* rebuild_index has returned False over a missing or malformed corpus file
C17_Witness ==
    /\ BadCorpus
    /\ last.op = "rebuild_index"
    /\ ~last.ok
    /\ ~last.raised
    /\ store.running

\* ------------------------------------------------------------------------
\* The cache as seen by the caller of search (Spec)
\* ------------------------------------------------------------------------

\* the lookup of the call just completed found no live entry in the cache
\* it started from
LookupMissed ==
    ~cache_get([cache |-> cache, hits |-> hits, misses |-> misses],
               _make_key(last'.query, EffectiveTopK(last'.top_k), last'.filters),
               now).found

\* what lines 133-182 compute for the call just completed on the index it
\* ran against
Computed ==
    Pipeline(index, last'.query, preprocess_text(text_processing, last'.query),
             EffectiveTopK(last'.top_k), last'.filters, last'.include_highlights)

\* C28: the cache is transparent: whatever the capacity (0 included) and
\* the entry lifetime, a search whose lookup misses and whose scoring,
\* ranking and result construction raise nothing returns exactly the
\* results these computed; a fault raised while the results are stored
\* neither changes nor empties the returned list.
C28_CacheTransparent ==
    [][(/\ CallStep
        /\ last'.op = "search"
        /\ ~IsBlank(last'.query)
        /\ preprocess_text(text_processing, last'.query) # <<>>
        /\ LookupMissed
        /\ Computed.fault = "none")
       => /\ last'.results = Computed.results
          /\ last'.total_results = Computed.total_results]_vars

\* C29: a set for a key that is already in the cache replaces that key's
\* results and insertion time and nothing else: every other entry stays as
\* it was and the number of keys does not go down, also when the cache is
\* at capacity.
C29_SetOfPresentKeyReplacesOnly ==
    [][(/\ CallStep
        /\ last'.op = "set"
        /\ EntriesFor(cache, last') # {})
       => /\ Len(cache') >= Len(cache)
          /\ \A i \in 1..Len(cache) :
                i \notin EntriesFor(cache, last')
                    => \E j \in 1..Len(cache') : cache'[j] = cache[i]
          /\ \E n \in EntriesFor(cache', last') :
                /\ cache'[n].results = last'.results
                /\ cache'[n].timestamp = now]_vars

\* ------------------------------------------------------------------------
\* Overlapping searches without a rebuild (SpecConc)
\* ------------------------------------------------------------------------

\* no rebuild_index has been called since the service was constructed
NoRebuildYet ==
    docs_file = "A"

\* the call just completed is a search that went through scoring, ranking,
\* result construction and the cache store
ScoredSearchReturns ==
    /\ CallStep
    /\ last'.op = "search"
    /\ ~IsBlank(last'.query)
    /\ preprocess_text(text_processing, last'.query) # <<>>
    /\ ~last'.cache_hit
    /\ last'.fault = "none"

\* C26: while no rebuild runs, searches that overlap each return what they
\* return when run alone, and every search that completes the scoring path
\* adds exactly one to search_count, so that total_searches is the number
\* of such searches.
C26_SearchesIndependent ==
    [][(NoRebuildYet /\ ScoredSearchReturns)
       => /\ last'.results = Computed.results
          /\ last'.total_results = Computed.total_results
          /\ search_count' = search_count + 1]_vars

\* ------------------------------------------------------------------------
\* SpecRank: the ranking lines of search.  search is called with filters and
\* queries that score several documents, on the service and on services
\* that run over the same index under other section weights.
\* ------------------------------------------------------------------------

MaxRankCalls ==
    2

Q_nodesend ==
    <<"n", "o", "d", "e", " ", "s", "e", "n", "d">>

F_general ==
    <<<<S_section_type, S_general>>>>

F_integration ==
    <<<<S_section_type, S_integration>>>>

F_Slack ==
    <<<<S_node_type, S_Slack>>>>

F_min3 ==
    <<<<S_min_score, 3>>>>

\* the (query, top_k, filters) search is called with in SpecRank
RankArgs ==
    {<<Q_slack, <<>>, <<>>>>,
     <<Q_slack, <<MaxTopK>>, <<>>>>,
     <<Q_slack, <<MaxTopK>>, F_general>>,
     <<Q_slack, <<MaxTopK>>, F_integration>>,
     <<Q_slack, <<MaxTopK>>, F_Slack>>,
     <<Q_slack, <<MaxTopK>>, F_min3>>,
     <<Q_slack, <<-1>>, <<>>>>,
     <<Q_nodesend, <<>>, <<>>>>,
     <<Q_email, <<MaxTopK>>, <<>>>>}

\* section_type_weights dicts: that of the service, one with a larger weight
\* for 'integration', one with a weight for 'concept' too, and the empty one
WeightMaps ==
    {section_type_weights,
     <<<<S_integration, 3>>>>,
     <<<<S_integration, 2>>, <<S_concept, 2>>>>,
     <<>>}

\* the arguments of the searches under other weights
WeightedArgs ==
    {<<Q_slack, <<MaxTopK>>, <<>>>>,
     <<Q_slack, <<MaxTopK>>, F_integration>>,
     <<Q_slack, <<MaxTopK>>, F_min3>>}

\* the first search of a service constructed over the same index with
\* section_type_weights = weights: nothing is cached, the call goes through
\* the scoring lines
\* (prior is a history tag: the weights of the call before, when that was
\* such a search with the same arguments)
SearchUnder(weights, query, top_k, filters) ==
    \E p \in {PipelineUnder(weights, index, query,
                            preprocess_text(text_processing, query),
                            EffectiveTopK(top_k), filters, FALSE)} :
        /\ Complete([Call("search_under") EXCEPT
               !.query = query, !.top_k = top_k, !.filters = filters,
               !.weights = weights,
               !.prior = IF last.op = "search_under" /\ last.query = query
                            /\ last.top_k = top_k /\ last.filters = filters
                             THEN <<last.weights>> ELSE <<>>,
               !.results = p.results,
               !.total_results = p.total_results,
               !.results_returned = Len(p.results),
               !.fault = p.fault,
               !.gen = index.retriever.gen])
        /\ UNCHANGED <<max_size, lru, _search_service, instances, tok, store, docs_file, index, cache, hits, misses,
                       search_count, now>>

InitRank ==
    /\ Init
    /\ max_size = MaxSize

NextRank ==
    \/ \E a \in RankArgs : calls < MaxRankCalls /\ Search(a[1], a[2], a[3], FALSE)
    \/ \E w \in WeightMaps, a \in WeightedArgs :
          calls < MaxRankCalls /\ SearchUnder(w, a[1], a[2], a[3])

SpecRank ==
    InitRank /\ [][NextRank]_vars

\* the position in documents of the document a result was made of (the
\* titles of the corpus are distinct)
DocOf(result) ==
    CHOOSE i \in 1..Len(index.documents) :
        DocGet(index.documents[i], "title", S_Untitled) = result.title

\* the query terms of the call just completed
TermsOfCall ==
    preprocess_text(text_processing, last'.query)

\* the node type of document i is a non-empty string whose lower-case form
\* occurs in the lower-cased query of the call just completed
NodeNamed(i) ==
    /\ index.documents[i].node_type # None
    /\ index.documents[i].node_type # <<>>
    /\ Contains(lower(last'.query), lower(index.documents[i].node_type))

\* the score of document i from the retriever for the call just completed
BaseScore(i) ==
    DocScore(TermsOfCall, index.document_tokens[i])

\* the final score of document i under the service's configuration for the
\* call just completed: the retriever's score times the weight of the section
\* type times the boost
FinalScore(i) ==
    BaseScore(i)
        * SectionWeight(DocGet(index.documents[i], "section_type", S_general))
        * (IF NodeNamed(i) THEN node_type_boost ELSE 1)

\* document i passed the two score thresholds of the call just completed
PassedThresholds(i) ==
    BaseScore(i) > 0 /\ BaseScore(i) >= min_score_threshold

\* document i satisfies every filter supplied to the call just completed
SatisfiesFilters(i) ==
    /\ HasFilter(last'.filters, S_section_type)
          => DocGet(index.documents[i], "section_type", S_general)
                 = FilterValue(last'.filters, S_section_type)
    /\ HasFilter(last'.filters, S_node_type)
          => index.documents[i].node_type = FilterValue(last'.filters, S_node_type)
    /\ HasFilter(last'.filters, S_min_score)
          => FinalScore(i) >= FilterValue(last'.filters, S_min_score)

\* the call just completed is a search of the service that went through the
\* scoring lines
ScoredPath ==
    /\ CallStep
    /\ last'.op = "search"
    /\ ~last'.cache_hit
    /\ last'.fault = "none"
    /\ TermsOfCall # <<>>

\* C21: on the scored path every returned document satisfies every supplied
\* filter (its section type equals the section_type filter, its node type
\* the node_type filter, its final score is at least min_score), and no
\* document that passed the score thresholds and satisfies the filters
\* is dropped before the sort: total_results counts them all.
C21_FiltersSoundAndComplete ==
    [][ScoredPath
       => /\ \A n \in 1..Len(last'.results) :
                /\ HasFilter(last'.filters, S_section_type)
                      => last'.results[n].section_type
                             = FilterValue(last'.filters, S_section_type)
                /\ HasFilter(last'.filters, S_node_type)
                      => last'.results[n].node_type
                             = FilterValue(last'.filters, S_node_type)
                /\ HasFilter(last'.filters, S_min_score)
                      => last'.results[n].score
                             >= FilterValue(last'.filters, S_min_score)
          /\ last'.total_results
                = Cardinality({i \in 1..Len(index.documents) :
                                  PassedThresholds(i) /\ SatisfiesFilters(i)})]_vars

\* document i was kept by the thresholds and by the filter lines of the call
\* just completed
Survived(i) ==
    /\ PassedThresholds(i)
    /\ last'.filters # <<>>
          => \E n \in 1..Len(_apply_filters(index.documents,
                                 <<[doc_idx |-> i, score |-> FinalScore(i)]>>,
                                 last'.filters)) : TRUE

\* the documents the call just completed returned
ReturnedDocs ==
    {DocOf(last'.results[n]) : n \in 1..Len(last'.results)}

\* C22: on the scored path the returned list is ordered by non-increasing
\* final score and is a selection of the best survivors: each result is a
\* survivor with its final score, none twice, and every survivor that was
\* not returned scores no more than every returned one.  Equal scores keep
\* the order of the corpus, among the results and against the survivors
\* left out.
C22_SortedTopK ==
    [][ScoredPath
       => /\ \A n \in 1..Len(last'.results) :
                /\ Survived(DocOf(last'.results[n]))
                /\ last'.results[n].score = FinalScore(DocOf(last'.results[n]))
          /\ Cardinality(ReturnedDocs) = Len(last'.results)
          /\ \A n, m \in 1..Len(last'.results) :
                n < m => /\ last'.results[n].score >= last'.results[m].score
                         /\ last'.results[n].score = last'.results[m].score
                               => DocOf(last'.results[n]) < DocOf(last'.results[m])
          /\ \A i \in 1..Len(index.documents) :
                (Survived(i) /\ i \notin ReturnedDocs)
                    => \A n \in 1..Len(last'.results) :
                          /\ FinalScore(i) <= last'.results[n].score
                          /\ FinalScore(i) = last'.results[n].score
                                => DocOf(last'.results[n]) < i]_vars

\* a search has returned the two best of four scored documents; the second
\* one ties with a later document that was left out
C22_Witness ==
    /\ last.op = "search"
    /\ ~last.cache_hit
    /\ last.fault = "none"
    /\ last.total_results = 4
    /\ Len(last.results) = 2
    /\ last.results[1].score > last.results[2].score
    /\ last.results[2].title = S_SlackHooks

\* the retriever's score of document i for the query of `call`
BaseOf(call, i) ==
    DocScore(preprocess_text(text_processing, call.query), index.document_tokens[i])

\* the node type of document i is a non-empty string whose lower-case form
\* occurs in the lower-cased raw query of `call`
NamedIn(call, i) ==
    /\ index.documents[i].node_type # None
    /\ index.documents[i].node_type # <<>>
    /\ Contains(lower(call.query), lower(index.documents[i].node_type))

\* `call` is a search of the service that returned from the scoring lines
Scored(call) ==
    call.op = "search" /\ ~call.cache_hit /\ call.fault = "none" /\ call.results # <<>>

\* C24: the score of a returned document is its weighted score times
\* node_type_boost exactly when the document has a non-empty node type
\* whose lower-case form is a substring of the lower-cased raw query, and
\* the weighted score itself otherwise.  Hence of two searches that give a
\* document the same retriever score, the one whose query names the
\* document's node type returns it with the higher score.
C24_NodeBoostIffNamed ==
    [][/\ ScoredPath
          => \A n \in 1..Len(last'.results) :
                LET i == DocOf(last'.results[n])
                    weighted == BaseOf(last', i)
                        * SectionWeight(DocGet(index.documents[i], "section_type",
                                               S_general))
                IN  /\ NamedIn(last', i) <=> last'.results[n].score
                                                  = weighted * node_type_boost
                    /\ ~NamedIn(last', i) <=> last'.results[n].score = weighted
       /\ (ScoredPath /\ Scored(last))
          => \A n \in 1..Len(last'.results), m \in 1..Len(last.results) :
                (/\ DocOf(last'.results[n]) = DocOf(last.results[m])
                 /\ BaseOf(last', DocOf(last'.results[n]))
                        = BaseOf(last, DocOf(last.results[m]))
                 /\ NamedIn(last, DocOf(last.results[m]))
                 /\ ~NamedIn(last', DocOf(last'.results[n])))
                    => last.results[m].score > last'.results[n].score]_vars

\* a search for 'node send' has returned the document of node type 'Slack'
\* after a search for 'slack' returned it with the boosted score
C24_Witness ==
    /\ last.op = "search"
    /\ last.query = Q_nodesend
    /\ Len(last.results) = 1
    /\ last.results[1].node_type = S_Slack
    /\ \E c \in 1..Len(cache) :
          /\ cache[c].results # <<>>
          /\ cache[c].results[1].node_type = S_Slack
          /\ cache[c].results[1].score = node_type_boost * last.results[1].score

\* the section types of the corpus
SectionTypes ==
    {S_integration, S_concept, S_general}

\* the weights `heavier` give section type s more than `lighter` do and
\* every other section type the same
RaisedFor(s, lighter, heavier) ==
    /\ WeightOf(heavier, s) > WeightOf(lighter, s)
    /\ \A other \in SectionTypes \ {s} : WeightOf(heavier, other) = WeightOf(lighter, other)

\* the section type of the document a result was made of
TypeOf(result) ==
    DocGet(index.documents[DocOf(result)], "section_type", S_general)

\* the position of the document of title `title` in results, 0 if absent
PositionIn(results, title) ==
    IF \E n \in 1..Len(results) : results[n].title = title
        THEN CHOOSE n \in 1..Len(results) : results[n].title = title
        ELSE 0

\* C23: section weighting is monotone.  Of two searches with the same
\* arguments over the same index under section weights that differ only in
\* a larger weight for one section type S, the one under the larger
\* weight gives every document of type S that both return a strictly larger
\* final score and every other document the same score, and a document of
\* type S that the first returns is returned by the second at the same
\* position or a better one.  A section type that is not in the weight map
\* counts with weight 1.
C23_WeightingMonotone ==
    [][(/\ CallStep
        /\ last.op = "search_under" /\ last'.op = "search_under"
        /\ last.fault = "none" /\ last'.fault = "none"
        /\ last'.query = last.query
        /\ last'.top_k = last.top_k
        /\ last'.filters = last.filters)
       => \A s \in SectionTypes :
             RaisedFor(s, last.weights, last'.weights)
                => /\ \A m \in 1..Len(last.results), n \in 1..Len(last'.results) :
                         last.results[m].title = last'.results[n].title
                            => IF TypeOf(last.results[m]) = s
                                   THEN last'.results[n].score > last.results[m].score
                                   ELSE last'.results[n].score = last.results[m].score
                   /\ \A m \in 1..Len(last.results) :
                         TypeOf(last.results[m]) = s
                            => LET n == PositionIn(last'.results, last.results[m].title)
                               IN  n # 0 /\ n <= m
                   /\ \A n \in 1..Len(last'.results) :
                         WeightOf(last'.weights, TypeOf(last'.results[n])) = 1
                            => last'.results[n].score
                                   = BaseOf(last', DocOf(last'.results[n]))
                                       * (IF NamedIn(last', DocOf(last'.results[n]))
                                              THEN node_type_boost ELSE 1)]_vars

\* a search under the weight 3 for 'integration' has returned the
\* 'integration' document 'Email Node' in second place, after the same
\* search under the weight 2 (where the document comes fourth)
C23_Witness ==
    /\ last.op = "search_under"
    /\ last.weights = <<<<S_integration, 3>>>>
    /\ last.prior = <<section_type_weights>>
    /\ last.query = Q_slack
    /\ last.filters = <<>>
    /\ Len(last.results) = 2
    /\ last.results[2].title = S_EmailNode

\* ------------------------------------------------------------------------
\* SpecTypes: the two getters of the available types, with rebuilds between
\* ------------------------------------------------------------------------

\* a doc.get of the getters raises: documents holds an element that is no dict
TypesRaise(documents) ==
    \E i \in 1..Len(documents) : documents[i].kind # "dict"

\* set(doc.get('section_type', 'general') for doc in documents); the list
\* made of the set has no defined order and is kept as the set
SectionTypesOf(documents) ==
    {DocGet(documents[i], "section_type", S_general) : i \in 1..Len(documents)}

\* the non-empty node types of documents; sorted(list(node_types)) is a
\* function of the set and is kept as the set
NodeTypesOf(documents) ==
    {documents[i].node_type : i \in {j \in 1..Len(documents) :
        documents[j].node_type # None /\ documents[j].node_type # <<>>}}

\* a call through lru_cache with the one key (self,): the entry if there is
\* one, else the computed value, which becomes the entry
Memoized(entry, computed) ==
    IF entry # <<>> THEN [value |-> entry[1], entry |-> entry]
    ELSE [value |-> computed, entry |-> <<computed>>]

\* get_available_section_types()
GetAvailableSectionTypes ==
    /\ IF lru.section_types = <<>> /\ TypesRaise(index.documents)
           THEN /\ Complete([Call("get_available_section_types") EXCEPT
                        !.raised = TRUE])
                /\ UNCHANGED lru
           ELSE \E m \in {Memoized(lru.section_types, SectionTypesOf(index.documents))} :
                   /\ Complete([Call("get_available_section_types") EXCEPT
                          !.types = m.value, !.gen = index.gen])
                   /\ lru' = [lru EXCEPT !.section_types = m.entry]
    /\ UNCHANGED <<max_size, _search_service, instances, store, docs_file, index,
                   cache, hits, misses, search_count, now>>

\* get_available_node_types()
GetAvailableNodeTypes ==
    /\ IF lru.node_types = <<>> /\ TypesRaise(index.documents)
           THEN /\ Complete([Call("get_available_node_types") EXCEPT
                        !.raised = TRUE])
                /\ UNCHANGED lru
           ELSE \E m \in {Memoized(lru.node_types, NodeTypesOf(index.documents))} :
                   /\ Complete([Call("get_available_node_types") EXCEPT
                          !.types = m.value, !.gen = index.gen])
                   /\ lru' = [lru EXCEPT !.node_types = m.entry]
    /\ UNCHANGED <<max_size, _search_service, instances, store, docs_file, index,
                   cache, hits, misses, search_count, now>>

\* what the corpus file holds when rebuild_index is called in SpecTypes
TypesRebuildFiles ==
    {"B", "C", "junk"}

NextTypes ==
    \/ GetAvailableSectionTypes
    \/ GetAvailableNodeTypes
    \/ \E file \in TypesRebuildFiles : RebuildIndex(file)

SpecTypes ==
    Init /\ [][NextTypes]_vars

\* C27: a getter of the available types answers from the documents that
\* are loaded when it is called: after a rebuild_index that returned True
\* over a changed corpus, get_available_section_types and
\* get_available_node_types return the types of the new documents.
C27_TypesOfLoadedDocuments ==
    [][/\ (CallStep /\ last'.op = "get_available_section_types" /\ ~last'.raised)
          => last'.types = SectionTypesOf(index.documents)
       /\ (CallStep /\ last'.op = "get_available_node_types" /\ ~last'.raised)
          => last'.types = NodeTypesOf(index.documents)]_vars

\* ------------------------------------------------------------------------
\* SpecSingleton: get_search_service called by several threads, statement
\* by statement
\* ------------------------------------------------------------------------

\* get_search_service: the test `_search_service is None`
GetServiceTest(t) ==
    /\ CanStart(t)
    /\ thr' = [thr EXCEPT ![t] = [Idle EXCEPT
           !.op = "get_search_service",
           !.pc = IF _search_service = 0 THEN "construct" ELSE "return_service"]]
    /\ UNCHANGED <<max_size, lru, _search_service, instances, tok, store, docs_file, index,
                   cache, hits, misses, search_count, now, calls, last, lock, lin,
                   gets_done>>

\* get_search_service: BM25DocumentationSearch(), which reads the
\* configuration and loads or builds the index
GetServiceConstruct(t) ==
    /\ thr[t].pc = "construct"
    /\ instances' = instances + 1
    /\ thr' = [thr EXCEPT ![t].pc = "assign", ![t].tmp = instances + 1]
    /\ UNCHANGED <<max_size, lru, _search_service, tok, store, docs_file, index,
                   cache, hits, misses, search_count, now, calls, last, lock, lin,
                   gets_done>>

\* get_search_service: the assignment to the global
GetServiceAssign(t) ==
    /\ thr[t].pc = "assign"
    /\ _search_service' = thr[t].tmp
    /\ thr' = [thr EXCEPT ![t].pc = "return_service"]
    /\ UNCHANGED <<max_size, lru, instances, tok, store, docs_file, index,
                   cache, hits, misses, search_count, now, calls, last, lock, lin,
                   gets_done>>

\* get_search_service: return _search_service; gen is the instance returned
GetServiceReturn(t) ==
    /\ thr[t].pc = "return_service"
    /\ Finish(t, [Call("get_search_service") EXCEPT !.gen = _search_service])
    /\ UNCHANGED <<max_size, lru, _search_service, instances, tok, store, docs_file, index,
                   cache, hits, misses, search_count, now, lock, lin, gets_done>>

NextSingleton ==
    \/ \E t \in Threads : GetServiceTest(t)
    \/ \E t \in Threads : GetServiceConstruct(t)
    \/ \E t \in Threads : GetServiceAssign(t)
    \/ \E t \in Threads : GetServiceReturn(t)

SpecSingleton ==
    Init /\ [][NextSingleton]_vars

\* C25: the process has one search service: get_search_service constructs
\* a BM25DocumentationSearch at most once, also when the first calls
\* overlap, and every call returns the same object.
C25_OneInstance ==
    /\ [](instances <= 1)
    /\ [][(/\ CallStep
           /\ last.op = "get_search_service"
           /\ last'.op = "get_search_service")
          => last'.gen = last.gen]_vars

\* ------------------------------------------------------------------------
\* SpecEmpty: the index life cycle over a corpus file whose sections list
\* is empty
\* ------------------------------------------------------------------------

\* what the corpus file is made to hold in SpecEmpty
EmptyFiles ==
    {"empty", "C"}

NextEmpty ==
    \/ Startup(CfgDefault)
    \/ store.running /\ RebuildIndex(docs_file)
    \/ store.running /\ Search(Q_slack, <<>>, <<>>, FALSE)
    \/ \E file \in EmptyFiles : TouchCorpus(file)
    \/ ClockTick

SpecEmpty ==
    InitIndex /\ [][NextEmpty]_vars

\* the corpus file parses and every section of its list is a dict
WellFormedCorpus ==
    /\ ~BadCorpus
    /\ FirstJunk(CorpusFiles[docs_file].sections) = 0

\* C30: a build over a well-formed corpus file completes, also when the
\* sections list is empty: startup returns a service and rebuild_index
\* returns True, the index then holds the sections of the file (none for
\* an empty list), and no build writes the snapshot file and then fails.
\* While the index holds no document every search returns no result.
C30_BuildCompletesOnWellFormed ==
    [][/\ (BuildStep /\ WellFormedCorpus)
          => /\ last'.ok /\ ~last'.raised
             /\ store'.running
             /\ index'.documents = CorpusFiles[docs_file].sections
       /\ (BuildStep /\ store'.snapshot # store.snapshot)
          => last'.ok
       /\ (CallStep /\ last'.op = "search" /\ index.documents = <<>>)
          => last'.results = <<>>]_vars

====
